---- MODULE Spec2Model ----
(***************************************************************************)
(* A model of the abstract gate data model (tequila/circuit/_gates_impl.py) *)
(* and of the abstract compiler (tequila/circuit/compiler.py).              *)
(*                                                                         *)
(* A gate is a record whose DOMAIN is the set of attributes the Python     *)
(* object carries, so that hasattr(gate, a) is  a \in DOMAIN gate.  A      *)
(* circuit is the sequence of its gates.  A call either returns a circuit  *)
(* or raises: its outcome is a record [ok, gates, err].                    *)
(***************************************************************************)
EXTENDS Integers, Sequences, FiniteSets, TLC

VARIABLES gate, call, out

vars == <<gate, call, out>>

(***************************************************************************)
(* Bounds of the model.                                                    *)
(***************************************************************************)
MaxQubit == 3
MaxControls == 3

Qubits == 0..MaxQubit

(***************************************************************************)
(* Numbers.  A parameter value is m/pi + r + p*pi + q*pi^2 with rational   *)
(* m, r, p, q: the values the compiler builds from rational inputs by      *)
(* negation, scaling, addition and multiplication or division by pi.       *)
(***************************************************************************)
RECURSIVE GCD(_, _)
GCD(a, b) == IF b = 0 THEN a ELSE GCD(b, a % b)

Abs(x) == IF x < 0 THEN -x ELSE x

Rat(n, d) ==
    LET s == IF d < 0 THEN -1 ELSE 1
        g == GCD(Abs(n), Abs(d))
    IN  [n |-> (s * n) \div g, d |-> (s * d) \div g]

RZero == Rat(0, 1)
RAdd(a, b) == Rat(a.n * b.d + b.n * a.d, a.d * b.d)
RMul(a, b) == Rat(a.n * b.n, a.d * b.d)
RNeg(a) == Rat(-a.n, a.d)

Core(m, r, p, q) == [m |-> m, r |-> r, p |-> p, q |-> q]
CoreZero == Core(RZero, RZero, RZero, RZero)

\* ha, hb, ht: rational coefficients of a_calc(harg), b_calc(harg) and
\* theta_calc(harg), the closed-form angles of a Hadamard power, which the
\* model keeps as uninterpreted functions of the exponent harg
Val(m, r, p, q) ==
    [m |-> m, r |-> r, p |-> p, q |-> q,
     ha |-> RZero, hb |-> RZero, ht |-> RZero, harg |-> CoreZero]
Num(n, d) == Val(RZero, Rat(n, d), RZero, RZero)
PiTimes(n, d) == Val(RZero, RZero, Rat(n, d), RZero)
Pi == PiTimes(1, 1)

HasH(x) == x.ha # RZero \/ x.hb # RZero \/ x.ht # RZero

PMul(x, c) ==
    [m |-> RMul(x.m, c), r |-> RMul(x.r, c), p |-> RMul(x.p, c), q |-> RMul(x.q, c),
     ha |-> RMul(x.ha, c), hb |-> RMul(x.hb, c), ht |-> RMul(x.ht, c),
     harg |-> IF c = RZero THEN CoreZero ELSE x.harg]
PScale(x, n, d) == PMul(x, Rat(n, d))
PNeg(x) == PScale(x, -1, 1)
PAdd(x, y) ==
    LET ha == RAdd(x.ha, y.ha)
        hb == RAdd(x.hb, y.hb)
        ht == RAdd(x.ht, y.ht)
    IN  [m |-> RAdd(x.m, y.m), r |-> RAdd(x.r, y.r), p |-> RAdd(x.p, y.p),
         q |-> RAdd(x.q, y.q), ha |-> ha, hb |-> hb, ht |-> ht,
         harg |-> IF ha = RZero /\ hb = RZero /\ ht = RZero THEN CoreZero
                  ELSE IF HasH(x) THEN x.harg ELSE y.harg]
PSub(x, y) == PAdd(x, PNeg(y))
PMulPi(x) == [x EXCEPT !.m = RZero, !.r = x.m, !.p = x.r, !.q = x.p]
PDivPi(x) == [x EXCEPT !.m = x.r, !.r = x.p, !.p = x.q, !.q = RZero]

\* power.wrap(f) for f one of a_calc, b_calc, theta_calc
WrapCalc(f, x) ==
    [m |-> RZero, r |-> RZero, p |-> RZero, q |-> RZero,
     ha |-> IF f = "a_calc" THEN Rat(1, 1) ELSE RZero,
     hb |-> IF f = "b_calc" THEN Rat(1, 1) ELSE RZero,
     ht |-> IF f = "theta_calc" THEN Rat(1, 1) ELSE RZero,
     harg |-> Core(x.m, x.r, x.p, x.q)]

RECURSIVE Pow2(_)
Pow2(k) == IF k = 0 THEN 1 ELSE 2 * Pow2(k - 1)

(***************************************************************************)
(* Sequences.                                                              *)
(***************************************************************************)
Range(s) == {s[i] : i \in 1..Len(s)}
InSeq(x, s) == \E i \in 1..Len(s) : s[i] = x
Reverse(s) == [i \in 1..Len(s) |-> s[Len(s) + 1 - i]]
Rising(s) == \A i, j \in 1..Len(s) : i < j => s[i] < s[j]
Distinct(s) == \A i, j \in 1..Len(s) : i # j => s[i] # s[j]

RECURSIVE Concat(_)
Concat(seqs) ==
    IF Len(seqs) = 0 THEN <<>>
    ELSE Concat(SubSeq(seqs, 1, Len(seqs) - 1)) \o seqs[Len(seqs)]

Perms(n) == {p \in [1..n -> 1..n] : \A i, j \in 1..n : i # j => p[i] # p[j]}
Permuted(s, p) == [i \in 1..Len(s) |-> s[p[i]]]

RECURSIVE SeqMax(_)
SeqMax(s) ==
    IF Len(s) = 1 THEN s[1]
    ELSE LET m == SeqMax(Tail(s)) IN IF s[1] > m THEN s[1] ELSE m

RECURSIVE SortedOf(_)
SortedOf(S) ==
    IF S = {} THEN <<>>
    ELSE LET lo == CHOOSE x \in S : \A y \in S : x <= y
         IN  <<lo>> \o SortedOf(S \ {lo})

(***************************************************************************)
(* Outcomes of a call.                                                     *)
(***************************************************************************)
Ok(gs) == [ok |-> TRUE, gates |-> gs, err |-> ""]
Raise(e) == [ok |-> FALSE, gates |-> <<>>, err |-> e]
Cat(a, b) == IF ~a.ok THEN a ELSE IF ~b.ok THEN b ELSE Ok(a.gates \o b.gates)
EmptyCircuit == Ok(<<>>)

(***************************************************************************)
(* Hamiltonians: a generator is None or a list of weighted Pauli strings;  *)
(* a Pauli string is a coefficient and an ordered qubit -> letter map.     *)
(***************************************************************************)
None == [isNone |-> TRUE, terms |-> <<>>]
Hamiltonian(ts) == [isNone |-> FALSE, terms |-> ts]
PauliString(data, coeff) == [coeff |-> coeff, data |-> data]
PauliOn(letter, q) == PauliString(<<[q |-> q, op |-> letter]>>, Rat(1, 1))
PauliSum(letter, qs) == Hamiltonian([i \in 1..Len(qs) |-> PauliOn(letter, qs[i])])

ps_map_qubits(ps, qubit_map) ==
    PauliString([i \in 1..Len(ps.data) |->
                    [q |-> qubit_map[ps.data[i].q], op |-> ps.data[i].op]], ps.coeff)
ham_map_qubits(h, qubit_map) ==
    Hamiltonian([i \in 1..Len(h.terms) |-> ps_map_qubits(h.terms[i], qubit_map)])


(***************************************************************************)
(* Gate model: _gates_impl.py.                                             *)
(***************************************************************************)
NoGate == [cls |-> "NoGate"]

HasAttr(g, a) == a \in DOMAIN g

is_controlled(g) == Len(g.control) # 0

is_single_qubit_gate(g) == Len(g.control) = 0 /\ Len(g.target) = 1

\* finalize with the overlap test left out
finalize_no_overlap_check(g) ==
    IF Len(g.target) = 0 THEN "Received no targets upon initialization"
    ELSE "ok"

\* QGateImpl.finalize: "ok", or the message of the exception it raises
finalize(g) ==
    IF Len(g.target) = 0 THEN "Received no targets upon initialization"
    ELSE IF is_controlled(g) /\ \E i \in 1..Len(g.target) : InSeq(g.target[i], g.control)
         THEN "control and target are the same qubit"
         ELSE "ok"

compute_max_qubit(g) == SeqMax(g.target \o g.control)

active_qubits(g) == SortedOf(Range(g.target) \cup Range(g.control))

\* QGateImpl.__init__; the outcome holds the one gate built
QGateImpl(name, target, control, generator) ==
    LET g0 == [target |-> target, control |-> control]
    IN  IF finalize(g0) # "ok" THEN Raise(finalize(g0))
        ELSE Ok(<<[cls |-> "QGateImpl", name |-> name, target |-> target,
                   control |-> control, qubits |-> active_qubits(g0),
                   max_qubit |-> compute_max_qubit(g0), generator |-> generator]>>)

\* PowerGateImpl.__init__ (ParametrizedGateImpl over QGateImpl)
PowerGateImpl(name, target, power, control, generator) ==
    LET base == QGateImpl(name, target, control, generator)
    IN  IF ~base.ok THEN base
        ELSE LET b == base.gates[1]
             IN  Ok(<<[cls |-> "PowerGateImpl", name |-> name, target |-> target,
                       control |-> control, qubits |-> b.qubits,
                       max_qubit |-> b.max_qubit, generator |-> generator,
                       parameter |-> power]>>)

string_to_axis(a) == CASE a = "x" -> 0 [] a = "y" -> 1 [] a = "z" -> 2
axis_to_string(a) == CASE a = 0 -> "x" [] a = 1 -> "y" [] a = 2 -> "z"

Lower(s) ==
    CASE s = "X" -> "x" [] s = "Y" -> "y" [] s = "Z" -> "z" [] s = "H" -> "h"
      [] s = "SWAP" -> "swap" [] s = "Phase" -> "phase"
      [] s = "Rx" -> "rx" [] s = "Ry" -> "ry" [] s = "Rz" -> "rz"
      [] s = "Exp-Pauli" -> "exp-pauli" [] s = "GenRot" -> "genrot"
      [] s = "Trotterized" -> "trotterized"
      [] OTHER -> s

assign_axis(axis) ==
    IF axis \in {"x", "y", "z"} THEN string_to_axis(axis)
    ELSE string_to_axis(Lower(axis))

get_name(axis) ==
    CASE assign_axis(axis) = 0 -> "Rx" [] assign_axis(axis) = 1 -> "Ry"
      [] assign_axis(axis) = 2 -> "Rz"

assign_generator(axis, qubits) ==
    IF axis = 0 THEN PauliSum("X", qubits)
    ELSE IF axis = 1 THEN PauliSum("Y", qubits)
    ELSE PauliSum("Z", qubits)

EigenvaluesMagnitude == Rat(1, 2)

\* RotationGateImpl.__init__
RotationGateImpl(axis, angle, target, control) ==
    LET base == QGateImpl(get_name(axis), target, control, None)
    IN  IF ~base.ok THEN base
        ELSE LET b == base.gates[1]
             IN  Ok(<<[cls |-> "RotationGateImpl", name |-> get_name(axis),
                       target |-> target, control |-> control, qubits |-> b.qubits,
                       max_qubit |-> b.max_qubit,
                       generator |-> assign_generator(assign_axis(axis), target),
                       parameter |-> angle,
                       eigenvalues_magnitude |-> EigenvaluesMagnitude,
                       axis |-> assign_axis(axis)]>>)

\* PhaseGateImpl.__init__
PhaseGateImpl(phase, target, control) ==
    LET base == QGateImpl("Phase", target, control, None)
    IN  IF ~base.ok THEN base
        ELSE LET b == base.gates[1]
             IN  Ok(<<[cls |-> "PhaseGateImpl", name |-> "Phase",
                       target |-> target, control |-> control, qubits |-> b.qubits,
                       max_qubit |-> b.max_qubit,
                       generator |-> Hamiltonian(
                           [i \in 1..Len(target) |-> PauliOn("Z", target[i])]
                           \o <<PauliString(<<>>, Rat(-1, 1))>>),
                       parameter |-> phase,
                       eigenvalues_magnitude |-> EigenvaluesMagnitude]>>)

\* the keys of a Pauli string, in iteration order
ps_keys(ps) == [i \in 1..Len(ps.data) |-> ps.data[i].q]

\* ExponentialPauliGateImpl.__init__
ExponentialPauliGateImpl(paulistring, angle, control) ==
    LET base == QGateImpl("Exp-Pauli", ps_keys(paulistring), control, None)
    IN  IF ~base.ok THEN base
        ELSE LET b == base.gates[1]
             IN  Ok(<<[cls |-> "ExponentialPauliGateImpl", name |-> "Exp-Pauli",
                       target |-> b.target, control |-> control, qubits |-> b.qubits,
                       max_qubit |-> b.max_qubit,
                       generator |-> Hamiltonian(<<paulistring>>),
                       parameter |-> angle,
                       eigenvalues_magnitude |-> EigenvaluesMagnitude,
                       paulistring |-> paulistring]>>)

\* GeneralizedRotationImpl.extract_targets: the qubits of the generator's
\* Pauli strings as tuple(set(...)), which lists small integers in rising order
extract_targets(generator) ==
    SortedOf(UNION {Range(ps_keys(generator.terms[i])) : i \in 1..Len(generator.terms)})

\* GeneralizedRotationImpl.__init__
GeneralizedRotationImpl(angle, generator, control, eigenvalues_magnitude, steps) ==
    LET base == QGateImpl("GenRot", extract_targets(generator), control, None)
    IN  IF ~base.ok THEN base
        ELSE LET b == base.gates[1]
             IN  Ok(<<[cls |-> "GeneralizedRotationImpl", name |-> "GenRot",
                       target |-> b.target, control |-> control, qubits |-> b.qubits,
                       max_qubit |-> b.max_qubit, generator |-> generator,
                       parameter |-> angle,
                       eigenvalues_magnitude |-> eigenvalues_magnitude,
                       steps |-> steps]>>)

\* TrotterizedGateImpl.extract_targets
trotterized_extract_targets(generators) ==
    SortedOf(UNION {Range(extract_targets(generators[i])) : i \in 1..Len(generators)})

\* TrotterizedGateImpl.__init__; angles = None stands for angles=None
TrotterizedGateImpl(generators, steps, angles, control, threshold, join_components, randomize_component_order, randomize) ==
    LET base == QGateImpl("Trotterized", trotterized_extract_targets(generators), control, None)
    IN  IF ~base.ok THEN base
        ELSE LET b == base.gates[1]
             IN  Ok(<<[cls |-> "TrotterizedGateImpl", name |-> "Trotterized",
                       target |-> b.target, control |-> control, qubits |-> b.qubits,
                       max_qubit |-> b.max_qubit, generator |-> None,
                       generators |-> generators,
                       angles |-> angles, steps |-> steps, threshold |-> threshold,
                       join_components |-> join_components,
                       randomize_component_order |-> randomize_component_order,
                       randomize |-> randomize]>>)

\* QGateImpl.map_qubits, with the overrides of the subclasses
map_qubits(g, qubit_map) ==
    LET t == [i \in 1..Len(g.target) |-> qubit_map[g.target[i]]]
        c == [i \in 1..Len(g.control) |-> qubit_map[g.control[i]]]
        tc == [target |-> t, control |-> c]
        gen == IF g.generator.isNone THEN g.generator
               ELSE ham_map_qubits(g.generator, qubit_map)
        m1 == [g EXCEPT !.target = t, !.control = c,
                        !.qubits = SortedOf(Range(t) \cup Range(c)),
                        !.max_qubit = compute_max_qubit(tc),
                        !.generator = gen]
        m2 == IF HasAttr(g, "paulistring")
              THEN [m1 EXCEPT !.paulistring = ps_map_qubits(g.paulistring, qubit_map)]
              ELSE m1
    IN  IF finalize(tc) # "ok" THEN Raise(finalize(tc)) ELSE Ok(<<m2>>)

(***************************************************************************)
(* The gate initializers of tequila.circuit.gates and the QCircuit         *)
(* operations the compiler uses.  Each initializer returns a one-gate      *)
(* circuit.                                                                *)
(***************************************************************************)
wrap_gate(g) == Ok(<<g>>)

X(target, control) == QGateImpl("X", target, control, None)
H(target) == QGateImpl("H", target, <<>>, None)
CNOT(control, target) == X(target, control)
Rx(angle, target, control) == RotationGateImpl("x", angle, target, control)
Ry(angle, target, control) == RotationGateImpl("y", angle, target, control)
Rz(angle, target, control) == RotationGateImpl("z", angle, target, control)
Phase(phi, target) == PhaseGateImpl(phi, target, <<>>)
T(target) == Phase(PiTimes(1, 4), target)
Z(power, target, control) == PowerGateImpl("Z", target, power, control, None)
ExpPauli(paulistring, angle, control) ==
    ExponentialPauliGateImpl(paulistring, angle, control)

\* QubitHamiltonian/PauliString helpers
naked(ps) == PauliString(ps.data, Rat(1, 1))
to_float(c) == c

\* the dagger methods with the parameter left as it is
gate_dagger_keeps_sign(g) ==
    IF g.cls = "QGateImpl" THEN QGateImpl(g.name, g.target, g.control, None).gates[1]
    ELSE g

\* the dagger methods of the gate classes
gate_dagger(g) ==
    IF g.cls = "QGateImpl" THEN QGateImpl(g.name, g.target, g.control, None).gates[1]
    ELSE IF g.cls = "PowerGateImpl" THEN g
    ELSE IF g.cls \in {"RotationGateImpl", "PhaseGateImpl", "ExponentialPauliGateImpl",
                       "GeneralizedRotationImpl"}
         THEN [g EXCEPT !.parameter = PNeg(g.parameter)]
    ELSE g

\* QGateImpl.__eq__ and ParametrizedGateImpl.__eq__ (a.__eq__(b))
gate_eq(a, b) ==
    LET base == a.name = b.name /\ a.target = b.target /\ a.control = b.control
    IN  IF HasAttr(a, "parameter")
        THEN HasAttr(b, "parameter") /\ base /\ a.parameter = b.parameter
        ELSE base

\* QCircuit.dagger: the adjoint gates in reverse order
circuit_dagger(r) ==
    IF ~r.ok THEN r
    ELSE Ok([i \in 1..Len(r.gates) |-> gate_dagger(r.gates[Len(r.gates) + 1 - i])])

\* Python values met in comparisons of mixed type
PyStr(v) == [tag |-> "str", val |-> v]
BoundMethod(v) == [tag |-> "method", val |-> v]
Truthy(v) == IF v.tag = "str" THEN v.val # "" ELSE TRUE

(***************************************************************************)
(* The decomposition rules: compiler.py.  Every rule is wrapped in the     *)
(* decorator `compiler`, so every call of a rule, from the engine or from  *)
(* another rule, is compiler(f, gate, kwargs): f is the rule's name and    *)
(* gate a circuit (a single gate is a one-gate circuit).                   *)
(***************************************************************************)
RECURSIVE compiler(_, _, _)

\* the keyword arguments at their defaults: cut=False, angles=None
NoKw == [cut |-> FALSE, angles |-> <<>>]

change_basis(target, axis, daggered) ==
    IF axis = 0 THEN H(target)
    ELSE IF axis = 1 /\ daggered THEN Rx(PiTimes(-1, 2), target, <<>>)
    ELSE IF axis = 1 THEN Rx(PiTimes(1, 2), target, <<>>)
    ELSE EmptyCircuit

compile_multitarget(g) ==
    IF HasAttr(g, "generator") \/ HasAttr(g, "generators") \/ HasAttr(g, "paulistring")
    THEN wrap_gate(g)
    ELSE IF g.cls \in {"ExponentialPauliGateImpl", "TrotterizedGateImpl"} THEN wrap_gate(g)
    ELSE IF Len(g.target) = 1 THEN wrap_gate(g)
    ELSE IF Lower(g.name) \in {"swap", "iswap"} THEN wrap_gate(g)
    ELSE Ok([i \in 1..Len(g.target) |-> [g EXCEPT !.target = <<g.target[i]>>]])

\* angles = <<>> stands for angles=None
compile_controlled_rotation(g, angles) ==
    IF ~is_controlled(g) THEN wrap_gate(g)
    ELSE IF g.cls # "RotationGateImpl" THEN wrap_gate(g)
    ELSE LET ang == IF angles = <<>>
                    THEN <<PScale(g.parameter, 1, 2), PScale(PNeg(g.parameter), 1, 2)>>
                    ELSE angles
         IN  IF Len(g.target) > 1
             THEN LET split == compiler("compile_multitarget", wrap_gate(g), NoKw)
                  IN  IF InSeq(g, split.gates)
                      THEN Raise("RecursionError")
                      ELSE compiler("compile_controlled_rotation", split,
                                    [NoKw EXCEPT !.angles = ang])
             ELSE Cat(change_basis(g.target, g.axis, FALSE),
                  Cat(RotationGateImpl("z", ang[1], g.target, <<>>),
                  Cat(QGateImpl("X", g.target, g.control, None),
                  Cat(RotationGateImpl("Z", ang[2], g.target, <<>>),
                  Cat(QGateImpl("X", g.target, g.control, None),
                      change_basis(g.target, g.axis, TRUE))))))

\* type(gate)(name=..., power=..., target=..., control=...) and its dagger
\* SubPower that keeps the exponent of the parent gate
SubPower_full_exponent(g, control) ==
    IF g.cls # "PowerGateImpl" THEN Raise("TypeError")
    ELSE PowerGateImpl(g.name, g.target, g.parameter, control, None)

SubPower(g, control) ==
    IF g.cls # "PowerGateImpl" THEN Raise("TypeError")
    ELSE PowerGateImpl(g.name, g.target, PScale(g.parameter, 1, 2), control, None)

\* the three single-control blocks joined by two CNOTs (cl = 2)
\* the two-control case with the two controls taken in the other order
TwoControlBlocks_controls_swapped(g, f) ==
    LET v == SubPower(g, <<g.control[1]>>)
        vdag == circuit_dagger(v)
        again == SubPower(g, <<g.control[2]>>)
        cx == CNOT(<<g.control[1]>>, <<g.control[2]>>)
    IN  Cat(compiler(f, v, NoKw), Cat(cx, Cat(compiler(f, vdag, NoKw),
            Cat(cx, compiler(f, again, NoKw)))))

TwoControlBlocks(g, f) ==
    LET v == SubPower(g, <<g.control[2]>>)
        vdag == circuit_dagger(v)
        again == SubPower(g, <<g.control[1]>>)
        cx == CNOT(<<g.control[1]>>, <<g.control[2]>>)
    IN  Cat(compiler(f, v, NoKw), Cat(cx, Cat(compiler(f, vdag, NoKw),
            Cat(cx, compiler(f, again, NoKw)))))

\* the reduction on the last control (cl > 2); mcx is the multi-controlled X
LastControlBlocks(g, f, r, kwargs, mcx) ==
    LET cl == Len(g.control)
        v == SubPower(g, <<g.control[cl]>>)
        vdag == circuit_dagger(v)
        rebuild == SubPower(g, SubSeq(g.control, 1, cl - 1))
    IN  Cat(compiler(f, v, NoKw), Cat(mcx, Cat(compiler(f, vdag, NoKw),
            Cat(mcx, compiler(r, rebuild, kwargs)))))

hadamard_base(g) ==
    IF g.cls # "PowerGateImpl" \/ g.name \notin {"H", "h", "hadamard"} THEN wrap_gate(g)
    ELSE Cat(Rz(WrapCalc("b_calc", g.parameter), g.target, <<>>),
         Cat(Ry(WrapCalc("theta_calc", g.parameter), g.target, <<>>),
             Rz(WrapCalc("a_calc", g.parameter), g.target, <<>>)))

hadamard_axbxc(g) ==
    IF g.cls # "PowerGateImpl" \/ g.name \notin {"H", "h", "hadamard"} THEN wrap_gate(g)
    ELSE LET power == g.parameter
             a == WrapCalc("a_calc", power)
             b == WrapCalc("b_calc", power)
             theta == WrapCalc("theta_calc", power)
         IN  Cat(Rz(PScale(PSub(a, b), 1, 2), g.target, <<>>),
             Cat(CNOT(g.control, g.target),
             Cat(Rz(PScale(PNeg(PAdd(a, b)), 1, 2), g.target, <<>>),
             Cat(Ry(PScale(PNeg(theta), 1, 2), g.target, <<>>),
             Cat(CNOT(g.control, g.target),
             Cat(Ry(PScale(theta, 1, 2), g.target, <<>>),
             Cat(Rz(a, g.target, <<>>),
                 Phase(PScale(PMulPi(power), 1, 2), g.control))))))))

hadamard_recursor(g) ==
    IF g.cls # "PowerGateImpl" \/ g.name \notin {"H", "h", "hadamard"} THEN wrap_gate(g)
    ELSE LET cl == Len(g.control)
         IN  IF cl = 0 THEN compiler("hadamard_base", wrap_gate(g), NoKw)
             ELSE IF cl = 1 THEN compiler("hadamard_axbxc", wrap_gate(g), NoKw)
             ELSE IF cl = 2 THEN TwoControlBlocks(g, "hadamard_axbxc")
             ELSE LastControlBlocks(g, "hadamard_axbxc", "hadamard_recursor", NoKw,
                                    X(<<g.control[cl]>>, SubSeq(g.control, 1, cl - 1)))

compile_h_power(g) ==
    IF g.cls # "PowerGateImpl" \/ g.name \notin {"H", "h", "hadamard"} THEN wrap_gate(g)
    ELSE IF ~is_controlled(g) THEN compiler("hadamard_base", wrap_gate(g), NoKw)
    ELSE compiler("hadamard_recursor", wrap_gate(g), NoKw)

\* compile_power_base whose last branch returns the gate instead of raising
compile_power_base_pass_through(g) ==
    IF g.cls # "PowerGateImpl" THEN wrap_gate(g)
    ELSE IF g.name \in {"H", "h", "Hadamard", "hadamard"} THEN compiler("compile_h_power", wrap_gate(g), NoKw)
    ELSE IF g.name = "X" THEN Rx(PMulPi(g.parameter), g.target, <<>>)
    ELSE IF g.name = "Y" THEN Ry(PMulPi(g.parameter), g.target, <<>>)
    ELSE IF g.name = "Z" THEN Rz(PMulPi(g.parameter), g.target, <<>>)
    ELSE wrap_gate(g)

compile_power_base(g) ==
    IF g.cls # "PowerGateImpl" THEN wrap_gate(g)
    ELSE IF g.name \in {"H", "h", "Hadamard", "hadamard"} THEN compiler("compile_h_power", wrap_gate(g), NoKw)
    ELSE IF g.name = "X" THEN Rx(PMulPi(g.parameter), g.target, <<>>)
    ELSE IF g.name = "Y" THEN Ry(PMulPi(g.parameter), g.target, <<>>)
    ELSE IF g.name = "Z" THEN Rz(PMulPi(g.parameter), g.target, <<>>)
    ELSE Raise("passed a gate which cannot be handled")

get_axbxc_decomp(g) ==
    IF g.cls # "PowerGateImpl" \/ g.name \notin {"X", "Y", "Z"} THEN wrap_gate(g)
    ELSE LET power == g.parameter
             theta == PMulPi(power)
             phase == Phase(PScale(PMulPi(power), 1, 2), g.control)
         IN  IF g.name = "X"
             THEN Cat(Rx(theta, g.target, g.control), phase)
             ELSE IF g.name = "Y"
             THEN Cat(CNOT(g.control, g.target),
                  Cat(Ry(PScale(PNeg(theta), 1, 2), g.target, <<>>),
                  Cat(CNOT(g.control, g.target),
                  Cat(Ry(PScale(theta, 1, 2), g.target, <<>>), phase))))
             ELSE Cat(Rz(PScale(theta, 1, 2), g.target, <<>>),
                  Cat(CNOT(g.control, g.target),
                  Cat(Rz(PScale(PNeg(theta), 1, 2), g.target, <<>>),
                  Cat(CNOT(g.control, g.target), phase))))

\* power_recursor whose multi-controlled X acts on the gate's target under
\* all of its controls instead of on the last control under the others
power_recursor_keep_controls(g, cut) ==
    LET cl == Len(g.control)
    IN  IF cl = 0 THEN compiler("compile_power_base", wrap_gate(g), NoKw)
        ELSE IF cl = 1 THEN compiler("get_axbxc_decomp", wrap_gate(g), NoKw)
        ELSE IF cl = 2 /\ ~cut THEN TwoControlBlocks(g, "get_axbxc_decomp")
        ELSE IF cl = 2 /\ cut
             THEN IF g.name \in {"CCx", "CCNOT", "CCX", "X"} THEN wrap_gate(g)
                  ELSE TwoControlBlocks(g, "get_axbxc_decomp")
        ELSE LastControlBlocks(g, "get_axbxc_decomp", "power_recursor",
                               [NoKw EXCEPT !.cut = cut],
                               X(g.target, g.control))

power_recursor(g, cut) ==
    LET cl == Len(g.control)
    IN  IF cl = 0 THEN compiler("compile_power_base", wrap_gate(g), NoKw)
        ELSE IF cl = 1 THEN compiler("get_axbxc_decomp", wrap_gate(g), NoKw)
        ELSE IF cl = 2 /\ ~cut THEN TwoControlBlocks(g, "get_axbxc_decomp")
        ELSE IF cl = 2 /\ cut
             THEN IF g.name \in {"CCx", "CCNOT", "CCX", "X"} THEN wrap_gate(g)
                  ELSE TwoControlBlocks(g, "get_axbxc_decomp")
        ELSE LastControlBlocks(g, "get_axbxc_decomp", "power_recursor",
                               [NoKw EXCEPT !.cut = cut],
                               X(<<g.control[cl]>>, SubSeq(g.control, 1, cl - 1)))

\* the gates on which power_recursor re-enters itself (line 623), in call order
RECURSIVE power_recursor_calls(_)
power_recursor_calls(g) ==
    IF Len(g.control) <= 2 THEN <<>>
    ELSE LET rebuild == SubPower(g, SubSeq(g.control, 1, Len(g.control) - 1))
         IN  IF ~rebuild.ok THEN <<>>
             ELSE <<rebuild.gates[1]>> \o power_recursor_calls(rebuild.gates[1])

compile_power_gate(g, cut) ==
    IF g.cls # "PowerGateImpl" THEN wrap_gate(g)
    ELSE IF Lower(g.name) \in {"h", "hadamard"} THEN wrap_gate(g)
    ELSE IF ~is_controlled(g) THEN compiler("compile_power_base", wrap_gate(g), NoKw)
    ELSE compiler("power_recursor", wrap_gate(g), [NoKw EXCEPT !.cut = cut])

\* compile_controlled_phase whose two-control case halves once too few
compile_controlled_phase_flat(g) ==
    IF g.cls # "PhaseGateImpl" THEN wrap_gate(g)
    ELSE IF Len(g.control) = 0 THEN wrap_gate(g)
    ELSE LET count == Len(g.control)
             phase == g.parameter
             c == g.control
             ladder[i \in 0..(count - 1)] ==
                 IF i = 0 THEN EmptyCircuit
                 ELSE Cat(ladder[i - 1],
                          Rz(PScale(phase, 1, Pow2(count - i)), <<c[i + 1]>>, SubSeq(c, 1, i)))
         IN  IF count = 1
             THEN Cat(H(g.target), Cat(CNOT(c, g.target), Cat(H(g.target),
                      Phase(PAdd(g.parameter, Pi), g.target))))
             ELSE IF count = 2
             THEN Cat(Rz(PScale(phase, 1, 2), <<c[1]>>, <<>>),
                  Cat(Rz(PScale(phase, 1, 2), <<c[2]>>, <<c[1]>>),
                      Rz(phase, g.target, c)))
             ELSE Cat(Rz(PScale(phase, 1, Pow2(count)), <<c[1]>>, <<>>),
                  Cat(ladder[count - 1], Rz(phase, g.target, c)))

compile_controlled_phase(g) ==
    IF g.cls # "PhaseGateImpl" THEN wrap_gate(g)
    ELSE IF Len(g.control) = 0 THEN wrap_gate(g)
    ELSE LET count == Len(g.control)
             phase == g.parameter
             c == g.control
             ladder[i \in 0..(count - 1)] ==
                 IF i = 0 THEN EmptyCircuit
                 ELSE Cat(ladder[i - 1],
                          Rz(PScale(phase, 1, Pow2(count - i)), <<c[i + 1]>>, SubSeq(c, 1, i)))
         IN  IF count = 1
             THEN Cat(H(g.target), Cat(CNOT(c, g.target), Cat(H(g.target),
                      Phase(PAdd(g.parameter, Pi), g.target))))
             ELSE IF count = 2
             THEN Cat(Rz(PScale(phase, 1, Pow2(2)), <<c[1]>>, <<>>),
                  Cat(Rz(PScale(phase, 1, Pow2(1)), <<c[2]>>, <<c[1]>>),
                      Rz(phase, g.target, c)))
             ELSE Cat(Rz(PScale(phase, 1, Pow2(count)), <<c[1]>>, <<>>),
                  Cat(ladder[count - 1], Rz(phase, g.target, c)))

\* compile_phase whose one-control case leaves the angle on the control whole
compile_phase_unhalved(g) ==
    IF g.cls # "PhaseGateImpl" THEN wrap_gate(g)
    ELSE IF Len(g.control) = 0 THEN Rz(g.parameter, g.target, <<>>)
    ELSE IF Len(g.control) = 1
         THEN Cat(Rz(g.parameter, g.control, <<>>),
                  Rz(g.parameter, g.target, g.control))
    ELSE compiler("compile_controlled_phase", wrap_gate(g), NoKw)

compile_phase(g) ==
    IF g.cls # "PhaseGateImpl" THEN wrap_gate(g)
    ELSE IF Len(g.control) = 0 THEN Rz(g.parameter, g.target, <<>>)
    ELSE IF Len(g.control) = 1
         THEN Cat(Rz(PScale(g.parameter, 1, 2), g.control, <<>>),
                  Rz(g.parameter, g.target, g.control))
    ELSE compiler("compile_controlled_phase", wrap_gate(g), NoKw)

compile_phase_to_z(g) ==
    IF g.cls # "PhaseGateImpl" THEN wrap_gate(g)
    ELSE Z(PDivPi(g.parameter), g.target, g.control)

compile_to_cc(g) ==
    IF ~Truthy(BoundMethod("is_controlled")) THEN wrap_gate(g)
    ELSE IF Len(g.control) <= 2 THEN wrap_gate(g)
    ELSE IF g.name \in {"X", "x", "Y", "y", "Z", "z", "H", "h"}
         THEN LET power == IF g.cls = "PowerGateImpl" THEN g.parameter ELSE Num(1, 1)
                  new == PowerGateImpl(g.name, g.target, power, g.control, None)
              IN  compiler("compile_power_gate", new, [NoKw EXCEPT !.cut = TRUE])
    ELSE IF g.cls = "RotationGateImpl"
         THEN LET partial == compiler("compile_controlled_rotation", wrap_gate(g), NoKw)
              IN  compiler("compile_to_cc", partial, NoKw)
    ELSE IF g.cls = "PhaseGateImpl"
         THEN LET partial == compiler("compile_controlled_phase", wrap_gate(g), NoKw)
              IN  compiler("compile_to_cc", partial, NoKw)
    ELSE Raise("TequilaException")

compile_toffoli(g) ==
    IF BoundMethod("lower") # PyStr("x") THEN wrap_gate(g)
    ELSE IF Len(g.control) < 2 THEN Raise("IndexError")
    ELSE LET c1 == <<g.control[2]>>
             c0 == <<g.control[1]>>
             target == g.target
         IN  Cat(H(target), Cat(CNOT(c1, target), Cat(circuit_dagger(T(target)),
             Cat(CNOT(c0, target), Cat(T(target), Cat(CNOT(c1, target),
             Cat(circuit_dagger(T(target)), Cat(CNOT(c0, target), Cat(T(c1),
             Cat(T(target), Cat(CNOT(c0, c1), Cat(H(target), Cat(T(c0),
             Cat(circuit_dagger(T(c1)), CNOT(c0, c1)))))))))))))))

\* compile_swap whose third gate targets the second SWAP target
compile_swap_third_on_t1(g) ==
    IF Lower(g.name) = "swap"
    THEN IF Len(g.target) # 2 THEN Raise("SWAP gates needs two targets")
         ELSE IF HasAttr(g, "power") /\ g.parameter # Num(1, 1)
              THEN Raise("SWAP gate with power can not be compiled into CNOTS")
         ELSE Cat(X(<<g.target[1]>>, <<g.target[2]>> \o g.control),
              Cat(X(<<g.target[2]>>, <<g.target[1]>> \o g.control),
                  X(<<g.target[2]>>, <<g.target[1]>> \o g.control)))
    ELSE wrap_gate(g)

compile_swap(g) ==
    IF Lower(g.name) = "swap"
    THEN IF Len(g.target) # 2 THEN Raise("SWAP gates needs two targets")
         ELSE IF HasAttr(g, "power") /\ g.parameter # Num(1, 1)
              THEN Raise("SWAP gate with power can not be compiled into CNOTS")
         ELSE Cat(X(<<g.target[1]>>, <<g.target[2]>> \o g.control),
              Cat(X(<<g.target[2]>>, <<g.target[1]>> \o g.control),
                  X(<<g.target[1]>>, <<g.target[2]>> \o g.control)))
    ELSE wrap_gate(g)

\* the axis of a Pauli letter in compile_exponential_pauli_gate
pauli_axis(letter) == IF letter \in {"X", "x"} THEN 0 ELSE IF letter \in {"Y", "y"} THEN 1 ELSE 2

\* compile_exponential_pauli_gate that puts the controls on the CNOT cascade too
compile_exponential_pauli_gate_ctrl_cascade(g) ==
    IF HasAttr(g, "paulistring")
    THEN LET items == g.paulistring.data
             n == Len(items)
             angle == PMul(g.parameter, g.paulistring.coeff)
             ubasis[i \in 0..n] ==
                 IF i = 0 THEN EmptyCircuit
                 ELSE Cat(ubasis[i - 1],
                          change_basis(<<items[i].q>>, pauli_axis(items[i].op), FALSE))
             ubasis_t[i \in 0..n] ==
                 IF i = 0 THEN EmptyCircuit
                 ELSE Cat(ubasis_t[i - 1],
                          change_basis(<<items[i].q>>, pauli_axis(items[i].op), TRUE))
             cnot_cascade[i \in 0..n] ==
                 IF i <= 1 THEN EmptyCircuit
                 ELSE Cat(cnot_cascade[i - 1],
                          X(<<items[i].q>>, <<items[i - 1].q>> \o g.control))
             last_qubit == IF n = 0 THEN <<>> ELSE <<items[n].q>>
         IN  Cat(ubasis[n], Cat(cnot_cascade[n],
             Cat(Rz(angle, last_qubit, g.control),
             Cat(circuit_dagger(cnot_cascade[n]), ubasis_t[n]))))
    ELSE wrap_gate(g)

compile_exponential_pauli_gate(g) ==
    IF HasAttr(g, "paulistring")
    THEN LET items == g.paulistring.data
             n == Len(items)
             angle == PMul(g.parameter, g.paulistring.coeff)
             ubasis[i \in 0..n] ==
                 IF i = 0 THEN EmptyCircuit
                 ELSE Cat(ubasis[i - 1],
                          change_basis(<<items[i].q>>, pauli_axis(items[i].op), FALSE))
             ubasis_t[i \in 0..n] ==
                 IF i = 0 THEN EmptyCircuit
                 ELSE Cat(ubasis_t[i - 1],
                          change_basis(<<items[i].q>>, pauli_axis(items[i].op), TRUE))
             cnot_cascade[i \in 0..n] ==
                 IF i <= 1 THEN EmptyCircuit
                 ELSE Cat(cnot_cascade[i - 1], X(<<items[i].q>>, <<items[i - 1].q>>))
             last_qubit == IF n = 0 THEN <<>> ELSE <<items[n].q>>
         IN  Cat(ubasis[n], Cat(cnot_cascade[n],
             Cat(Rz(angle, last_qubit, g.control),
             Cat(circuit_dagger(cnot_cascade[n]), ubasis_t[n]))))
    ELSE wrap_gate(g)

\* do_compile_trotterized_gate with the factor not divided by the steps
do_compile_trotterized_gate_undivided(generator, steps, factor, control) ==
    LET ts == generator.terms
        pass[i \in 0..Len(ts)] ==
            IF i = 0 THEN EmptyCircuit
            ELSE IF Len(ts[i].data) = 0 THEN pass[i - 1]
            ELSE Cat(pass[i - 1],
                     ExpPauli(naked(ts[i]), PMul(factor, to_float(ts[i].coeff)), control))
        rep[k \in 0..steps] ==
            IF k = 0 THEN EmptyCircuit ELSE Cat(rep[k - 1], pass[Len(ts)])
    IN  rep[steps]

do_compile_trotterized_gate(generator, steps, factor, control) ==
    LET f == PScale(factor, 1, steps)
        ts == generator.terms
        pass[i \in 0..Len(ts)] ==
            IF i = 0 THEN EmptyCircuit
            ELSE IF Len(ts[i].data) = 0 THEN pass[i - 1]
            ELSE Cat(pass[i - 1],
                     ExpPauli(naked(ts[i]), PMul(f, to_float(ts[i].coeff)), control))
        rep[k \in 0..steps] ==
            IF k = 0 THEN EmptyCircuit ELSE Cat(rep[k - 1], pass[Len(ts)])
    IN  rep[steps]

compile_generalized_rotation_gate(g) ==
    IF g.generator.isNone \/ Lower(g.name) \in {"phase", "rx", "ry", "rz"} THEN wrap_gate(g)
    ELSE IF ~HasAttr(g, "eigenvalues_magnitude") THEN wrap_gate(g)
    ELSE do_compile_trotterized_gate(g.generator,
                                     IF HasAttr(g, "steps") THEN g.steps ELSE 1,
                                     g.parameter, g.control)

\* numpy.random.shuffle(gate.generators) of lines 1276-1277 and 1284-1285:
\* the list held by the gate is reordered in place, `order` being the draw
shuffle_generators(g, order) ==
    IF g.randomize_component_order
    THEN [g EXCEPT !.generators = Permuted(g.generators, order)]
    ELSE g

\* numpy.random.shuffle(paulistrings) of lines 1222-1224: the terms of each
\* generator are read in a drawn order, flips[i] reversing the (at most two)
\* terms of generator i; the list is rebuilt by the generator on every read
shuffle_paulistrings(g, flips) ==
    IF g.randomize
    THEN [g EXCEPT !.generators =
             [i \in 1..Len(g.generators) |->
                 IF flips[i] THEN Hamiltonian(Reverse(g.generators[i].terms))
                 ELSE g.generators[i]]]
    ELSE g

\* the rule on the generators and the terms in the order in which the
\* shuffles have left them
compile_trotterized_gate(g) ==
    IF ~HasAttr(g, "generators") \/ ~HasAttr(g, "steps") THEN wrap_gate(g)
    ELSE LET gens == g.generators
             m == Len(gens)
             c(i) == IF g.angles.isNone THEN Num(1, 1) ELSE g.angles.vals[i]
             joined[i \in 0..m] ==
                 IF i = 0 THEN EmptyCircuit
                 ELSE Cat(joined[i - 1],
                          do_compile_trotterized_gate(gens[i], 1, PScale(c(i), 1, g.steps),
                                                      g.control))
             steps[k \in 0..g.steps] ==
                 IF k = 0 THEN EmptyCircuit ELSE Cat(steps[k - 1], joined[m])
             unrolled[i \in 0..m] ==
                 IF i = 0 THEN EmptyCircuit
                 ELSE Cat(unrolled[i - 1],
                          do_compile_trotterized_gate(gens[i], g.steps, c(i), g.control))
         IN  IF g.join_components THEN steps[g.steps] ELSE unrolled[m]

\* f(gate=g, **kwargs) for the rule named f
call_rule(f, g, kwargs) ==
    CASE f = "compile_multitarget" -> compile_multitarget(g)
      [] f = "compile_controlled_rotation" ->
             compile_controlled_rotation(g, kwargs.angles)
      [] f = "compile_to_cc" -> compile_to_cc(g)
      [] f = "compile_toffoli" -> compile_toffoli(g)
      [] f = "compile_power_gate" -> compile_power_gate(g, kwargs.cut)
      [] f = "power_recursor" -> power_recursor(g, kwargs.cut)
      [] f = "compile_power_base" -> compile_power_base(g)
      [] f = "get_axbxc_decomp" -> get_axbxc_decomp(g)
      [] f = "compile_h_power" -> compile_h_power(g)
      [] f = "hadamard_base" -> hadamard_base(g)
      [] f = "hadamard_axbxc" -> hadamard_axbxc(g)
      [] f = "hadamard_recursor" -> hadamard_recursor(g)
      [] f = "compile_phase" -> compile_phase(g)
      [] f = "compile_phase_to_z" -> compile_phase_to_z(g)
      [] f = "compile_controlled_phase" -> compile_controlled_phase(g)
      [] f = "compile_swap" -> compile_swap(g)
      [] f = "compile_exponential_pauli_gate" ->
             compile_exponential_pauli_gate(g)
      [] f = "compile_generalized_rotation_gate" ->
             compile_generalized_rotation_gate(g)
      [] f = "compile_trotterized_gate" -> compile_trotterized_gate(g)

\* the decorator (lines 311-351) on a circuit: f is applied to each gate of
\* the circuit with the keyword arguments and the results are joined in order
compiler(f, circuit, kwargs) ==
    IF ~circuit.ok THEN circuit
    ELSE IF Len(circuit.gates) = 0 THEN EmptyCircuit
    ELSE IF Len(circuit.gates) = 1 THEN call_rule(f, circuit.gates[1], kwargs)
    ELSE Cat(compiler(f, Ok(SubSeq(circuit.gates, 1, Len(circuit.gates) \div 2)), kwargs),
             compiler(f, Ok(SubSeq(circuit.gates, Len(circuit.gates) \div 2 + 1,
                                   Len(circuit.gates))), kwargs))

(***************************************************************************)
(* The compiler engine: Compiler.compile_circuit.  cfg is the set of the   *)
(* toggles that are set.                                                   *)
(***************************************************************************)
Toggles ==
    {"multitarget", "multicontrol", "trotterized", "generalized_rotation",
     "exponential_pauli", "controlled_exponential_pauli", "hadamard_power",
     "controlled_power", "power", "toffoli", "controlled_phase", "phase",
     "phase_to_z", "controlled_rotation", "swap", "cc_max", "gradient_mode"}

\* lines 261-298: a pipeline is a sequence of `if self.<toggle>: cg = rule(gate=cg)`;
\* the entry "multicontrol" stands for the raise of lines 269-270
Stage(on, f) == [on |-> on, f |-> f]

run_stage(stage, cg) ==
    IF ~stage.on THEN cg
    ELSE IF stage.f = "multicontrol"
         THEN IF cg.ok THEN Raise("NotImplementedError") ELSE cg
    ELSE compiler(stage.f, cg, NoKw)

RECURSIVE run_stages(_, _)
run_stages(stages, g) ==
    IF Len(stages) = 0 THEN wrap_gate(g)
    ELSE run_stage(stages[Len(stages)], run_stages(SubSeq(stages, 1, Len(stages) - 1), g))

\* the first pipeline with the SWAP stage also run on every controlled gate
first_pipeline_swap_if_controlled(g, cfg) ==
    LET controlled == is_controlled(g)
    IN  <<Stage(controlled \/ "trotterized" \in cfg, "compile_trotterized_gate"),
          Stage(controlled \/ "generalized_rotation" \in cfg,
                "compile_generalized_rotation_gate"),
          Stage(controlled \/ "exponential_pauli" \in cfg, "compile_exponential_pauli_gate"),
          Stage(controlled \/ "swap" \in cfg, "compile_swap"),
          Stage("multicontrol" \in cfg, "multicontrol"),
          Stage("hadamard_power" \in cfg, "compile_h_power"),
          Stage("phase_to_z" \in cfg, "compile_phase_to_z"),
          Stage("power" \in cfg, "compile_power_gate"),
          Stage("phase" \in cfg, "compile_phase")>>

\* lines 261-279: the stages run on every visited gate
first_pipeline(g, cfg) ==
    LET controlled == is_controlled(g)
    IN  <<Stage(controlled \/ "trotterized" \in cfg, "compile_trotterized_gate"),
          Stage(controlled \/ "generalized_rotation" \in cfg,
                "compile_generalized_rotation_gate"),
          Stage(controlled \/ "exponential_pauli" \in cfg, "compile_exponential_pauli_gate"),
          Stage("swap" \in cfg, "compile_swap"),
          Stage("multicontrol" \in cfg, "multicontrol"),
          Stage("hadamard_power" \in cfg, "compile_h_power"),
          Stage("phase_to_z" \in cfg, "compile_phase_to_z"),
          Stage("power" \in cfg, "compile_power_gate"),
          Stage("phase" \in cfg, "compile_phase")>>

\* the second pipeline without the test of line 280
second_pipeline_unguarded(g, cfg) ==
    <<Stage("cc_max" \in cfg, "compile_to_cc"),
      Stage("controlled_exponential_pauli" \in cfg, "compile_exponential_pauli_gate"),
      Stage("hadamard_power" \in cfg, "compile_h_power"),
      Stage("controlled_power" \in cfg, "compile_power_gate"),
      Stage("controlled_phase" \in cfg, "compile_controlled_phase"),
      Stage("toffoli" \in cfg, "compile_toffoli"),
      Stage("toffoli" \in cfg /\ "phase" \in cfg, "compile_phase"),
      Stage("controlled_rotation" \in cfg, "compile_controlled_rotation"),
      Stage("cc_max" \in cfg, "compile_to_cc")>>

\* lines 280-298: the stages that follow when the visited gate is controlled
second_pipeline(g, cfg) ==
    IF ~is_controlled(g) THEN <<>>
    ELSE <<Stage("cc_max" \in cfg, "compile_to_cc"),
           Stage("controlled_exponential_pauli" \in cfg, "compile_exponential_pauli_gate"),
           Stage("hadamard_power" \in cfg, "compile_h_power"),
           Stage("controlled_power" \in cfg, "compile_power_gate"),
           Stage("controlled_phase" \in cfg, "compile_controlled_phase"),
           Stage("toffoli" \in cfg, "compile_toffoli"),
           Stage("toffoli" \in cfg /\ "phase" \in cfg, "compile_phase"),
           Stage("controlled_rotation" \in cfg, "compile_controlled_rotation"),
           Stage("cc_max" \in cfg, "compile_to_cc")>>

\* the loop body without the gradient-mode shortcut
compile_gate_no_shortcut(g, cfg) ==
    run_stages(first_pipeline(g, cfg) \o second_pipeline(g, cfg), g)

\* the body of the loop over the visited gates (lines 249-300)
compile_gate(g, cfg) ==
    IF ~is_controlled(g) /\ "gradient_mode" \in cfg
       /\ (HasAttr(g, "eigenvalues_magnitude") \/ HasAttr(g, "shifted_gates"))
    THEN wrap_gate(g)
    ELSE run_stages(first_pipeline(g, cfg) \o second_pipeline(g, cfg), g)

\* QCircuit.replace_gates with every position replaced: the replacement
\* circuits in the order of their positions
RECURSIVE replace_gates(_, _)
replace_gates(gates, circuits) ==
    IF Len(circuits) = 0 THEN EmptyCircuit
    ELSE Cat(replace_gates(gates, SubSeq(circuits, 1, Len(circuits) - 1)),
             circuits[Len(circuits)])

\* lines 302-308: nothing visited returns the circuit itself
compiled_circuit(gates, compiled_gates) ==
    IF Len(compiled_gates) = 0 THEN Ok(gates)
    ELSE replace_gates(gates, compiled_gates)

\* compile_circuit with variables=None: every gate is visited
compile_circuit(gates, cfg) ==
    compiled_circuit(gates, [i \in 1..Len(gates) |-> compile_gate(gates[i], cfg)])

\* the control flow of one visit (lines 249-300): the rules applied by each
\* pipeline, in order, up to the first raise
RECURSIVE trace_stages(_, _)
trace_stages(stages, cg) ==
    IF Len(stages) = 0 THEN [res |-> cg, applied |-> <<>>]
    ELSE LET prev == trace_stages(SubSeq(stages, 1, Len(stages) - 1), cg)
             stage == stages[Len(stages)]
         IN  IF ~prev.res.ok \/ ~stage.on THEN prev
             ELSE IF stage.f = "multicontrol"
                  THEN [res |-> Raise("NotImplementedError"), applied |-> prev.applied]
             ELSE [res |-> compiler(stage.f, prev.res, NoKw),
                   applied |-> Append(prev.applied, stage.f)]

second_trace(first, stages) ==
    [skipped |-> FALSE, first |-> first.applied, first_ok |-> first.res.ok,
     first_result |-> first.res.gates,
     entered |-> first.res.ok /\ Len(stages) # 0,
     second |-> trace_stages(stages, first.res).applied]

visit_trace(g, cfg) ==
    IF ~is_controlled(g) /\ "gradient_mode" \in cfg
       /\ (HasAttr(g, "eigenvalues_magnitude") \/ HasAttr(g, "shifted_gates"))
    THEN [skipped |-> TRUE, first |-> <<>>, first_ok |-> TRUE, first_result |-> <<>>,
          entered |-> FALSE, second |-> <<>>]
    ELSE second_trace(trace_stages(first_pipeline(g, cfg), wrap_gate(g)),
                      second_pipeline(g, cfg))

NoVariables == [isNone |-> TRUE, names |-> <<>>]
VariableList(names) == [isNone |-> FALSE, names |-> names]

\* the loop over every gate, whatever `variables` is
gatelist_every_gate(gates, parameter_map, variables) == [i \in 1..Len(gates) |-> i]

\* lines 237-247: the positions the loop visits, in the order of the visit;
\* parameter_map[name] lists the positions of the gates depending on name
gatelist(gates, parameter_map, variables) ==
    IF variables.isNone THEN [i \in 1..Len(gates) |-> i]
    ELSE Concat([k \in 1..Len(variables.names) |-> parameter_map[variables.names[k]]])

\* QCircuit.replace_gates: the replacements sorted by position and spliced
\* between the gates that keep their place
replace_gates_at(gates, positions, circuits) ==
    LET n == Len(positions)
        keys == SortedOf({positions[k] * (n + 1) + k : k \in 1..n})
        step[i \in 0..n] ==
            IF i = 0 THEN [new |-> <<>>, last |-> 0]
            ELSE LET k == keys[i] % (n + 1)
                 IN  [new |-> step[i - 1].new
                              \o SubSeq(gates, step[i - 1].last + 1, positions[k] - 1)
                              \o circuits[k].gates,
                      last |-> positions[k]]
    IN  step[n].new \o SubSeq(gates, step[n].last + 1, Len(gates))

\* lines 249-308 after the visit: a raise of a visited gate ends the call
\* the end of compile_circuit returning a new, empty circuit when no gate
\* was visited
visited_result_empty_circuit(gates, positions, cgs) ==
    IF Len(positions) = 0 THEN Ok(<<>>)
    ELSE IF \E k \in 1..Len(cgs) : ~cgs[k].ok
         THEN cgs[CHOOSE k \in 1..Len(cgs) : ~cgs[k].ok /\ \A j \in 1..(k - 1) : cgs[j].ok]
    ELSE Ok(replace_gates_at(gates, positions, cgs))

visited_result(gates, positions, cgs) ==
    IF Len(positions) = 0 THEN Ok(gates)
    ELSE IF \E k \in 1..Len(cgs) : ~cgs[k].ok
         THEN cgs[CHOOSE k \in 1..Len(cgs) : ~cgs[k].ok /\ \A j \in 1..(k - 1) : cgs[j].ok]
    ELSE Ok(replace_gates_at(gates, positions, cgs))

visit_all(gates, positions, cfg) ==
    visited_result(gates, positions,
                   [k \in 1..Len(positions) |-> compile_gate(gates[positions[k]], cfg)])

\* compile_circuit with its variables argument
compile_circuit_variables(gates, parameter_map, cfg, variables) ==
    visit_all(gates, gatelist(gates, parameter_map, variables), cfg)

(***************************************************************************)
(* Compiler.compile_objective.  A term is an object: `id` is its identity, *)
(* the other fields its value.  An expectation value built during the call *)
(* is a new object, named after the place where it was built.              *)
(***************************************************************************)
ExpectationValue(id, U, Hop) == [kind |-> "E", id |-> id, U |-> U, H |-> Hop, name |-> ""]
Variable(id, name) == [kind |-> "V", id |-> id, U |-> <<>>, H |-> "", name |-> name]

\* ExpectationValueImpl.__eq__/__hash__ as the keys of already_processed
term_equal(a, b) == a.kind = b.kind /\ a.U = b.U /\ a.H = b.H /\ a.name = b.name

NewObjectId(s, i) == 100 + 10 * s + i

\* lines 200-203, 208-209: an expectation value is rebuilt around the compiled
\* circuit, a variable is returned as it is
Compiled(cU, arg, newid) ==
    [ok |-> cU.ok, err |-> cU.err,
     term |-> [ExpectationValue(newid, cU.gates, arg.H) EXCEPT !.kind = arg.kind]]

\* kind "W" is an object that holds its expectation value as
\* abstract_expectationvalue (lines 204-207): the compiled circuit is stored
\* into that expectation value and a new object is built around it
compile_objective_argument(arg, cfg, newid) ==
    IF arg.kind \in {"E", "W"} THEN Compiled(compile_circuit(arg.U, cfg), arg, newid)
    ELSE IF arg.kind = "V" THEN [ok |-> TRUE, err |-> "", term |-> arg]
    ELSE [ok |-> FALSE, err |-> "TequilaCompilerException", term |-> arg]

\* the inner loop of compile_objective over one argset (lines 163-176);
\* already_processed starts empty for every argset
compile_argset(argset, s, cfg) ==
    LET compiled_args[i \in 1..Len(argset)] ==
            LET arg == argset[i]
                hits == {j \in 1..(i - 1) : argset[j].kind = "E" /\ term_equal(argset[j], arg)}
            IN  IF arg.kind = "E" /\ hits # {}
                THEN compiled_args[CHOOSE j \in hits : \A k \in hits : j <= k]
                ELSE compile_objective_argument(arg, cfg, NewObjectId(s, i))
    IN  compiled_args

\* lines 177-180: the objective is rebuilt from the compiled term-sets
compiled_objective(objective, compiled_sets) ==
    LET argsets == objective.argsets
        failed == {<<s, i>> \in (1..Len(argsets)) \X (1..2) :
                      i <= Len(argsets[s]) /\ ~compiled_sets[s][i].ok}
        sets == [s \in 1..Len(argsets) |->
                    [i \in 1..Len(argsets[s]) |-> compiled_sets[s][i].term]]
    IN  IF failed # {} THEN [ok |-> FALSE, gates |-> <<>>, err |-> "raised", sets |-> <<>>]
        ELSE IF objective.cls = "Objective"
             THEN [ok |-> TRUE, gates |-> <<>>, err |-> "", sets |-> <<sets[1]>>]
             ELSE [ok |-> TRUE, gates |-> <<>>, err |-> "", sets |-> sets]

\* line 206, E._U = ...: the objective the caller holds after the call; the
\* expectation value inside a term of kind "W" has the compiled circuit as
\* soon as its compilation has returned
objective_after(objective, compiled_sets) ==
    LET argsets == objective.argsets
        reached(s, i) ==
            \A s2 \in 1..s : \A i2 \in 1..Len(argsets[s2]) :
                (s2 < s \/ i2 <= i) => compiled_sets[s2][i2].ok
    IN  [objective EXCEPT !.argsets =
            [s \in 1..Len(argsets) |->
                [i \in 1..Len(argsets[s]) |->
                    IF argsets[s][i].kind = "W" /\ reached(s, i)
                    THEN [argsets[s][i] EXCEPT !.U = compiled_sets[s][i].term.U]
                    ELSE argsets[s][i]]]]

compile_argsets(objective, cfg) ==
    [s \in 1..Len(objective.argsets) |-> compile_argset(objective.argsets[s], s, cfg)]

IsInstance(o, classes) == HasAttr(o, "cls") /\ o.cls \in classes

\* what a call of the Compiler hands back: `shape` is the kind of object
\* returned ("None" for a call that ends without a return statement), `after`
\* the caller's object once the call is over
Returned(shape, r, after) ==
    [ok |-> r.ok, err |-> r.err, shape |-> IF r.ok THEN shape ELSE "",
     gates |-> r.gates, after |-> after]

\* lines 177-180: neither isinstance test holds and the method ends
objective_shape(objective) ==
    IF IsInstance(objective, {"Objective", "VectorObjective"}) THEN "objective" ELSE "None"

call_compile_objective(objective, compiled_sets) ==
    Returned(objective_shape(objective), compiled_objective(objective, compiled_sets),
             objective_after(objective, compiled_sets))

term_result(c, arg) ==
    Returned("expectationvalue", [ok |-> c.ok, err |-> c.err, gates |-> c.term.U], arg)

\* Compiler.__call__ (lines 134-143)
Compiler_call(objective, variables, cfg) ==
    IF IsInstance(objective, {"Objective", "VectorObjective"}) \/ HasAttr(objective, "args")
    THEN call_compile_objective(objective, compile_argsets(objective, cfg))
    ELSE IF IsInstance(objective, {"QCircuit"}) \/ HasAttr(objective, "gates")
    THEN Returned("circuit",
                  compile_circuit_variables(objective.gates, objective.parameter_map,
                                            cfg, variables),
                  objective)
    ELSE IF HasAttr(objective, "U")
    THEN term_result(compile_objective_argument(objective, cfg, NewObjectId(0, 0)), objective)
    ELSE Returned("", Raise("TequilaCompilerException"), objective)

compile_objective(objective, cfg) ==
    compiled_objective(objective,
        [s \in 1..Len(objective.argsets) |-> compile_argset(objective.argsets[s], s, cfg)])

(***************************************************************************)
(* The inputs of the model.                                                *)
(***************************************************************************)
SeqsUpTo(S, lo, hi) == UNION {[1..n -> S] : n \in lo..hi}

TargetTuples == {t \in SeqsUpTo(Qubits, 1, 2) : Distinct(t)}
ControlTuples == {c \in SeqsUpTo(Qubits, 0, MaxControls) : Distinct(c)}

PlainNames == {"X", "Y", "H", "SWAP", "x"}
PowerNames == {"X", "Z", "H", "SWAP"}
Axes == {"x", "y", "z"}
Theta == Num(1, 1)
Phases == {Num(1, 1), PiTimes(1, 2)}
Powers == {Num(1, 1), Num(1, 2)}
Coeffs == {Rat(1, 1), Rat(-1, 2)}
Letters == {"X", "Y", "Z"}

PauliStrings ==
    {PauliString([i \in 1..Len(x[1]) |-> [q |-> x[1][i], op |-> x[2][i]]], x[3]) :
        x \in {y \in {t \in SeqsUpTo(Qubits, 1, 3) : Distinct(t)}
                     \X SeqsUpTo(Letters, 1, 3) \X Coeffs : Len(y[1]) = Len(y[2])}}

GenRotGenerators ==
    {PauliSum("Z", <<0, 2>>),
     Hamiltonian(<<PauliString(<<[q |-> 1, op |-> "X"], [q |-> 0, op |-> "Y"]>>, Rat(-1, 2))>>)}
StepCounts == {1, 2}

\* a -> b, every other qubit kept
QubitMaps ==
    {[q \in Qubits |-> IF q = ab[1] THEN ab[2] ELSE q] : ab \in Qubits \X Qubits}

Configs == {{}, {"cc_max"}}

\* Compiler.__init__: every toggle is a keyword of its own; the settings
\* with at most one toggle set, gradient_mode next to one other toggle, and
\* every toggle set, with and without multicontrol and gradient_mode
PipelineConfigs ==
    {{}, Toggles, Toggles \ {"multicontrol"}, Toggles \ {"multicontrol", "gradient_mode"}}
    \cup {{t} : t \in Toggles}
    \cup {{"gradient_mode", t} : t \in Toggles}

\* the circuits handed to the Compiler: each gate comes with the names of the
\* variables its parameter depends on
MaxGates == 3
Names == {"a", "b"}
Entry(g, names) == [g |-> g.gates[1], names |-> names]
CircuitEntries ==
    {Entry(Rx(Theta, <<0>>, <<>>), {}),
     Entry(Rx(Theta, <<0>>, <<>>), {"a"}),
     Entry(Ry(Theta, <<1>>, <<>>), {"a", "b"}),
     Entry(PhaseGateImpl(Theta, <<0>>, <<1>>), {"b"}),
     Entry(X(<<0>>, <<1>>), {}),
     Entry(QGateImpl("SWAP", <<0, 1>>, <<>>, None), {}),
     Entry(ExponentialPauliGateImpl(
               PauliString(<<[q |-> 0, op |-> "X"], [q |-> 1, op |-> "Y"]>>, Rat(1, 1)),
               Theta, <<>>), {"a"})}

QCircuit(entries) ==
    [cls |-> "QCircuit",
     gates |-> [i \in 1..Len(entries) |-> entries[i].g],
     parameter_map |->
         [n \in Names |-> SortedOf({i \in 1..Len(entries) : n \in entries[i].names})]]

Circuits == {QCircuit(es) : es \in SeqsUpTo(CircuitEntries, 0, MaxGates)}

CircuitConfigs ==
    {{}, {"swap", "phase", "exponential_pauli", "controlled_phase"},
     Toggles \ {"multicontrol"}, {"multicontrol"}}

VariableLists ==
    {NoVariables} \cup {VariableList(ns) : ns \in {n \in SeqsUpTo(Names, 0, 2) : Distinct(n)}}

\* the Trotterized gates: one or two generators of at most two terms
TrotterGenerators ==
    {PauliSum("Z", <<0>>), PauliSum("X", <<1>>),
     Hamiltonian(<<PauliOn("X", 0), PauliOn("Y", 1)>>)}
TrotterAngles == [isNone |-> FALSE, vals |-> <<Num(1, 1), Num(1, 2)>>]

\* generators with weighted terms and with a constant term (a Pauli string
\* on no qubit)
WeightedGenerators ==
    {PauliSum("Z", <<0>>),
     Hamiltonian(<<PauliString(<<>>, Rat(1, 2)),
                   PauliString(<<[q |-> 0, op |-> "X"], [q |-> 1, op |-> "Y"]>>, Rat(1, 2)),
                   PauliOn("Z", 1)>>),
     Hamiltonian(<<PauliOn("X", 0), PauliString(<<[q |-> 1, op |-> "Y"]>>, Rat(3, 2))>>)}

ObjCircuit == X(<<0>>, <<1>>).gates

\* the terms and the objects handed to the Compiler
SwapCircuit == <<QGateImpl("SWAP", <<0, 1>>, <<>>, None).gates[1]>>
Wrapped(id, U, Hop) == [ExpectationValue(id, U, Hop) EXCEPT !.kind = "W"]
CallTerms ==
    {ExpectationValue(1, SwapCircuit, "H1"), ExpectationValue(2, ObjCircuit, "H1"),
     Wrapped(5, SwapCircuit, "H1"), Variable(4, "a"),
     [kind |-> "?", id |-> 6, U |-> <<>>, H |-> "", name |-> ""]}
CallObjectives ==
    {[cls |-> "Objective", argsets |-> <<a>>] : a \in SeqsUpTo(CallTerms, 1, 2)}
    \cup {[cls |-> "VectorObjective", argsets |-> <<a, b>>] :
             a \in SeqsUpTo(CallTerms, 1, 1), b \in SeqsUpTo(CallTerms, 1, 1)}
    \cup {[cls |-> "SimpleNamespace", args |-> <<>>, argsets |-> as] :
             as \in {<<>>, <<<<Variable(4, "a")>>>>}}
OtherObjects == {[cls |-> "int"], [cls |-> "str"]}
ObjectConfigs == {{}, {"swap"}, {"multicontrol"}}

ObjTerms ==
    {ExpectationValue(1, ObjCircuit, "H1"), ExpectationValue(2, ObjCircuit, "H1"),
     ExpectationValue(3, ObjCircuit, "H2"), Variable(4, "a")}
Objectives ==
    {[cls |-> "Objective", argsets |-> <<a>>] : a \in SeqsUpTo(ObjTerms, 1, 2)}
    \cup {[cls |-> "VectorObjective", argsets |-> as] :
             as \in SeqsUpTo(SeqsUpTo(ObjTerms, 1, 2), 1, 2)}

(***************************************************************************)
(* The state machine: a gate is built and either remapped any number of    *)
(* times or handed to one compilation call; an objective is compiled as a  *)
(* whole.                                                                  *)
(***************************************************************************)
Init ==
    /\ gate = NoGate
    /\ call = [op |-> "init"]
    /\ out = Ok(<<>>)

Fresh == call.op = "init"
\* a gate exists
Exists == gate # NoGate /\ call.op \in {"construct", "map_qubits"}
\* the compiler is handed gates as they were built
Built == gate # NoGate /\ call.op = "construct"

Constructed(r, t, c) ==
    /\ gate' = IF r.ok THEN r.gates[1] ELSE NoGate
    /\ out' = r
    /\ call' = [op |-> "construct", target |-> t, control |-> c]

ConstructQGate ==
    /\ Fresh
    /\ \E name \in PlainNames, t \in TargetTuples, c \in ControlTuples :
          Constructed(QGateImpl(name, t, c, None), t, c)

ConstructPower ==
    /\ Fresh
    /\ \E name \in PowerNames, p \in Powers, t \in TargetTuples, c \in ControlTuples :
          Constructed(PowerGateImpl(name, t, p, c, None), t, c)

ConstructRotation ==
    /\ Fresh
    /\ \E axis \in Axes, t \in TargetTuples, c \in ControlTuples :
          Constructed(RotationGateImpl(axis, Theta, t, c), t, c)

ConstructPhase ==
    /\ Fresh
    /\ \E a \in Phases, q \in Qubits, c \in ControlTuples :
          Constructed(PhaseGateImpl(a, <<q>>, c), <<q>>, c)

ConstructExpPauli ==
    /\ Fresh
    /\ \E ps \in PauliStrings, c \in ControlTuples :
          Constructed(ExponentialPauliGateImpl(ps, Theta, c), ps_keys(ps), c)

ConstructGenRot ==
    /\ Fresh
    /\ \E gen \in GenRotGenerators, steps \in StepCounts, c \in ControlTuples :
          Constructed(GeneralizedRotationImpl(Theta, gen, c, EigenvaluesMagnitude, steps),
                      extract_targets(gen), c)

\* a gate whose qubits are still pairwise distinct is remapped again
MapQubits ==
    /\ Exists
    /\ Distinct(gate.target \o gate.control)
    /\ \E m \in QubitMaps :
          LET r == map_qubits(gate, m)
          IN  /\ gate' = IF r.ok THEN r.gates[1] ELSE NoGate
              /\ out' = r
              /\ call' = [op |-> "map_qubits",
                          target |-> [i \in 1..Len(gate.target) |-> m[gate.target[i]]],
                          control |-> [i \in 1..Len(gate.control) |-> m[gate.control[i]]]]

\* a rule called on the gate
Applied(f) ==
    /\ Built
    /\ out' = compiler(f, wrap_gate(gate), NoKw)
    /\ call' = [op |-> f]
    /\ UNCHANGED gate

CompileMultitarget == Applied("compile_multitarget")
CompileToCC == Applied("compile_to_cc")
CompileToffoli == Applied("compile_toffoli")
CompileSwap == Applied("compile_swap")
CompileExponentialPauli == Applied("compile_exponential_pauli_gate")
CompileControlledPhase == Applied("compile_controlled_phase")

PowerRecursor ==
    /\ Built
    /\ \E cut \in BOOLEAN :
          /\ out' = compiler("power_recursor", wrap_gate(gate), [NoKw EXCEPT !.cut = cut])
          /\ call' = [op |-> "power_recursor", cut |-> cut]
    /\ UNCHANGED gate

\* gate.dagger() and, on its result, dagger() again
Dagger ==
    /\ Built
    /\ out' = Ok(<<gate_dagger(gate)>>)
    /\ call' = [op |-> "dagger"]
    /\ UNCHANGED gate

DaggerAgain ==
    /\ call.op = "dagger"
    /\ out' = Ok(<<gate_dagger(out.gates[1])>>)
    /\ call' = [op |-> "dagger_dagger"]
    /\ UNCHANGED gate

CompileCircuit ==
    /\ Built
    /\ \E cfg \in Configs :
          /\ out' = compile_circuit(<<gate>>, cfg)
          /\ call' = [op |-> "compile_circuit", cfg |-> cfg]
    /\ UNCHANGED gate

CompileObjective ==
    /\ Fresh
    /\ \E o \in Objectives :
          /\ out' = compile_objective(o, {})
          /\ call' = [op |-> "compile_objective", objective |-> o]
    /\ UNCHANGED gate

\* the caller drops what it holds and starts over
Discard ==
    /\ ~Fresh
    /\ gate' = NoGate
    /\ call' = [op |-> "init"]
    /\ out' = Ok(<<>>)

Next ==
    \/ ConstructQGate
    \/ ConstructPower
    \/ ConstructRotation
    \/ ConstructPhase
    \/ ConstructExpPauli
    \/ ConstructGenRot
    \/ MapQubits
    \/ CompileMultitarget
    \/ CompileToCC
    \/ CompileToffoli
    \/ CompileSwap
    \/ CompileExponentialPauli
    \/ CompileControlledPhase
    \/ PowerRecursor
    \/ Dagger
    \/ DaggerAgain
    \/ CompileCircuit
    \/ CompileObjective
    \/ Discard

Spec == Init /\ [][Next]_vars

(***************************************************************************)
(* The pipeline of compile_circuit on one visited gate, under the settings *)
(* of the toggles.                                                         *)
(***************************************************************************)
\* the visited gates list their targets and their controls in rising order
VisitGate ==
    /\ Built
    /\ Rising(gate.target) /\ Rising(gate.control)
    /\ \E cfg \in PipelineConfigs :
          /\ out' = compile_circuit(<<gate>>, cfg)
          /\ call' = [op |-> "visit", cfg |-> cfg, trace |-> visit_trace(gate, cfg)]
    /\ UNCHANGED gate

PipelineNext ==
    \/ ConstructQGate
    \/ ConstructPower
    \/ ConstructRotation
    \/ ConstructPhase
    \/ ConstructExpPauli
    \/ ConstructGenRot
    \/ VisitGate
    \/ Discard

PipelineSpec == Init /\ [][PipelineNext]_vars

(***************************************************************************)
(* The Compiler called on whole objects: a circuit with its index of       *)
(* variables, an objective, an expectation value, anything else; and the   *)
(* Trotter rule called on a Trotterized gate.  `gate` is the object the     *)
(* caller holds, `call.before` what it was when the call was made.          *)
(***************************************************************************)
Held == call.op = "hold"

Hold(object) ==
    /\ gate' = object
    /\ call' = [op |-> "hold"]
    /\ out' = Ok(<<>>)

BuildCircuit == Fresh /\ \E c \in Circuits : Hold(c)

BuildObjective ==
    /\ Fresh
    /\ \E o \in CallObjectives \cup {t \in CallTerms : t.kind = "E"} \cup OtherObjects : Hold(o)

BuildTrotterized ==
    /\ Fresh
    /\ \E gens \in {g \in SeqsUpTo(TrotterGenerators, 1, 2) : Distinct(g)},
          angles \in {None, TrotterAngles}, join \in BOOLEAN,
          order \in BOOLEAN, randomize \in BOOLEAN, c \in {<<>>, <<2>>} :
          Hold(TrotterizedGateImpl(gens, 1, angles, c, 0, join, order, randomize).gates[1])

Called(r, object, cfg, variables) ==
    /\ out' = [ok |-> r.ok, err |-> r.err, shape |-> r.shape, gates |-> r.gates]
    /\ gate' = r.after
    /\ call' = [op |-> "__call__", before |-> object, cfg |-> cfg, variables |-> variables]

CallOnCircuit ==
    /\ Held /\ IsInstance(gate, {"QCircuit"})
    /\ \E cfg \in CircuitConfigs, variables \in VariableLists :
          Called(Compiler_call(gate, variables, cfg), gate, cfg, variables)

CallOnObject ==
    /\ Held /\ ~IsInstance(gate, {"QCircuit", "TrotterizedGateImpl"})
    /\ \E cfg \in ObjectConfigs :
          Called(Compiler_call(gate, NoVariables, cfg), gate, cfg, NoVariables)

\* compile_trotterized_gate(gate=...) on the gate the caller holds
CallTrotterRule ==
    /\ Held /\ IsInstance(gate, {"TrotterizedGateImpl"})
    /\ \E order \in Perms(Len(gate.generators)),
          flips \in [1..Len(gate.generators) -> BOOLEAN] :
          /\ gate' = shuffle_generators(gate, order)
          /\ out' = compiler("compile_trotterized_gate",
                             wrap_gate(shuffle_paulistrings(shuffle_generators(gate, order),
                                                            flips)),
                             NoKw)
    /\ call' = [op |-> "compile_trotterized_gate", before |-> gate]

CompilerNext ==
    \/ BuildCircuit
    \/ BuildObjective
    \/ BuildTrotterized
    \/ CallOnCircuit
    \/ CallOnObject
    \/ CallTrotterRule
    \/ Discard

CompilerSpec == Init /\ [][CompilerNext]_vars

(***************************************************************************)
(* The lowering rules called on single gates as they were built.           *)
(***************************************************************************)
CompilePowerBase == Applied("compile_power_base")
HadamardBase == Applied("hadamard_base")
CompileControlledRotation == Applied("compile_controlled_rotation")

\* a Trotterized gate built with both randomization flags off
ConstructTrotterized ==
    /\ Fresh
    /\ \E gens \in {g \in SeqsUpTo(WeightedGenerators, 1, 2) : Distinct(g)},
          steps \in StepCounts, angles \in {None, TrotterAngles}, join \in BOOLEAN,
          c \in {<<>>, <<2>>, <<2, 3>>} :
          Constructed(TrotterizedGateImpl(gens, steps, angles, c, 0, join, FALSE, FALSE),
                      trotterized_extract_targets(gens), c)

CompileTrotterized == Applied("compile_trotterized_gate")
CompilePhase == Applied("compile_phase")
HadamardRecursor == Applied("hadamard_recursor")

\* a gate on one more qubit than Qubits holds, controlled by all of Qubits
AllControls == [i \in 1..(MaxQubit + 1) |-> i - 1]

ConstructAllControlled ==
    /\ Fresh
    /\ \E name \in {"X", "Z"} :
          Constructed(QGateImpl(name, <<MaxQubit + 1>>, AllControls, None),
                      <<MaxQubit + 1>>, AllControls)

\* compile_to_cc(compile_to_cc(gate)); the circuit of the first call is kept
\* for comparison
CompileToCCTwice ==
    /\ Built
    /\ out' = compiler("compile_to_cc", compiler("compile_to_cc", wrap_gate(gate), NoKw), NoKw)
    /\ call' = [op |-> "compile_to_cc twice",
                once |-> compiler("compile_to_cc", wrap_gate(gate), NoKw)]
    /\ UNCHANGED gate

RuleNext ==
    \/ ConstructQGate
    \/ ConstructPower
    \/ ConstructRotation
    \/ ConstructPhase
    \/ ConstructExpPauli
    \/ ConstructGenRot
    \/ CompilePowerBase
    \/ HadamardBase
    \/ CompileToffoli
    \/ CompileControlledRotation
    \/ ConstructTrotterized
    \/ CompileTrotterized
    \/ CompilePhase
    \/ PowerRecursor
    \/ HadamardRecursor
    \/ ConstructAllControlled
    \/ CompileToCCTwice
    \/ Discard

RuleSpec == Init /\ [][RuleNext]_vars

(***************************************************************************)
(* What a gate looks like from outside: class, name, qubits, parameter.    *)
(***************************************************************************)
View(g) ==
    [cls |-> g.cls, name |-> g.name, target |-> g.target, control |-> g.control,
     par |-> IF HasAttr(g, "parameter") THEN <<g.parameter>> ELSE <<>>]
Views(gs) == [i \in 1..Len(gs) |-> View(gs[i])]

PlainView(name, t, c) ==
    [cls |-> "QGateImpl", name |-> name, target |-> t, control |-> c, par |-> <<>>]
RotView(name, angle, t, c) ==
    [cls |-> "RotationGateImpl", name |-> name, target |-> t, control |-> c,
     par |-> <<angle>>]
PhaseView(angle, t) ==
    [cls |-> "PhaseGateImpl", name |-> "Phase", target |-> t, control |-> <<>>,
     par |-> <<angle>>]

Overlap(t, c) == Range(t) \cap Range(c) # {}
AtMostTwoControls(gs) == \A i \in 1..Len(gs) : Len(gs[i].control) <= 2

(***************************************************************************)
(* Properties.                                                             *)
(***************************************************************************)

\* C1: every gate that exists after constructions and map_qubits calls has
\* disjoint target and control, and a construction or remapping whose
\* resulting target and control share a qubit raises and yields no gate.
C1_DisjointOrFails ==
    /\ gate # NoGate => ~Overlap(gate.target, gate.control)
    /\ (call.op \in {"construct", "map_qubits"} /\ Overlap(call.target, call.control))
          => (~out.ok /\ gate = NoGate)

C1_Witness ==
    /\ call.op = "map_qubits"
    /\ Overlap(call.target, call.control)
    /\ ~out.ok

\* C2: compile_multitarget splits an uncontrolled gate without generator or
\* Pauli string, not named swap/iswap, with k > 1 targets into k gates, one
\* per target in order, each with the gate's name, one target, no controls.
C2_SplitsPerTarget ==
    (/\ call.op = "compile_multitarget"
     /\ ~is_controlled(gate)
     /\ gate.generator.isNone
     /\ ~HasAttr(gate, "paulistring")
     /\ Lower(gate.name) \notin {"swap", "iswap"}
     /\ Len(gate.target) > 1)
    => (/\ out.ok
        /\ Len(out.gates) = Len(gate.target)
        /\ \A i \in 1..Len(out.gates) :
              /\ out.gates[i].name = gate.name
              /\ out.gates[i].target = <<gate.target[i]>>
              /\ out.gates[i].control = <<>>)

\* C3: compiling the one-gate circuit of a plain X gate with three controls
\* with cc_max as the only toggle returns a circuit whose gates all have at
\* most two controls.
C3_ThreeControlX ==
    (/\ call.op = "compile_circuit"
     /\ call.cfg = {"cc_max"}
     /\ gate.cls = "QGateImpl"
     /\ gate.name = "X"
     /\ Len(gate.control) = 3)
    => (out.ok /\ AtMostTwoControls(out.gates))

C3_Witness ==
    /\ call.op = "compile_circuit"
    /\ call.cfg = {"cc_max"}
    /\ gate.cls = "QGateImpl"
    /\ gate.name = "X"
    /\ Len(gate.control) = 3
    /\ out.ok
    /\ Len(out.gates) > 1

\* C4: compile_to_cc returns, for a gate with more than two controls whose
\* primitive is X, Y, Z or H (plain or powered), a rotation or a phase gate,
\* a circuit whose gates all have at most two controls, and returns a gate
\* with at most two controls unchanged as a one-gate circuit.
C4_AtMostTwoControls ==
    call.op = "compile_to_cc" =>
        /\ (/\ Len(gate.control) > 2
            /\ \/ (gate.cls \in {"QGateImpl", "PowerGateImpl"}
                      /\ gate.name \in {"X", "Y", "Z", "H"})
               \/ gate.cls \in {"RotationGateImpl", "PhaseGateImpl"})
              => (out.ok /\ AtMostTwoControls(out.gates))
        /\ Len(gate.control) <= 2 => out = Ok(<<gate>>)

\* C5: compile_toffoli turns an X gate with controls c0, c1 and target t
\* into H(t), CNOT(c1,t), Tdg(t), CNOT(c0,t), T(t), CNOT(c1,t), Tdg(t),
\* CNOT(c0,t), T(c1), T(t), CNOT(c0,c1), H(t), T(c0), Tdg(c1), CNOT(c0,c1).
C5_ToffoliSequence ==
    (/\ call.op = "compile_toffoli"
     /\ gate.cls = "QGateImpl"
     /\ gate.name = "X"
     /\ Len(gate.control) = 2
     /\ Len(gate.target) = 1)
    => LET c0 == <<gate.control[1]>>
           c1 == <<gate.control[2]>>
           t == gate.target
           Tg(q) == PhaseView(PiTimes(1, 4), q)
           Tdg(q) == PhaseView(PiTimes(-1, 4), q)
           Hd(q) == PlainView("H", q, <<>>)
           CX(c, q) == PlainView("X", q, c)
       IN  /\ out.ok
           /\ Views(out.gates) =
                 <<Hd(t), CX(c1, t), Tdg(t), CX(c0, t), Tg(t), CX(c1, t), Tdg(t),
                   CX(c0, t), Tg(c1), Tg(t), CX(c0, c1), Hd(t), Tg(c0), Tdg(c1),
                   CX(c0, c1)>>

\* C6: compile_swap turns an unpowered SWAP on (t0, t1) with controls C into
\* three X gates on t0, t1, t0, each controlled by the other SWAP target
\* followed by C; without controls they are three CNOTs on exactly {t0, t1}.
C6_SwapThreeX ==
    (/\ call.op = "compile_swap"
     /\ Lower(gate.name) = "swap"
     /\ Len(gate.target) = 2
     /\ (gate.cls = "QGateImpl" \/ (gate.cls = "PowerGateImpl" /\ gate.parameter = Num(1, 1))))
    => LET t0 == gate.target[1]
           t1 == gate.target[2]
       IN  /\ out.ok
           /\ Views(out.gates) =
                 <<PlainView("X", <<t0>>, <<t1>> \o gate.control),
                   PlainView("X", <<t1>>, <<t0>> \o gate.control),
                   PlainView("X", <<t0>>, <<t1>> \o gate.control)>>
           /\ gate.control = <<>> =>
                 /\ \A i \in 1..3 : Len(out.gates[i].control) = 1
                 /\ UNION {Range(out.gates[i].target) \cup Range(out.gates[i].control) :
                             i \in 1..3} = {t0, t1}

C6_Witness ==
    /\ call.op = "compile_swap"
    /\ gate.cls = "QGateImpl"
    /\ gate.name = "SWAP"
    /\ Len(gate.control) > 0
    /\ Len(out.gates) = 3

\* C7: compile_swap raises on a SWAP gate whose power parameter is not 1.
C7_PoweredSwapRaises ==
    (/\ call.op = "compile_swap"
     /\ Lower(gate.name) = "swap"
     /\ gate.cls = "PowerGateImpl"
     /\ gate.parameter # Num(1, 1))
    => ~out.ok

\* C8: compile_exponential_pauli_gate returns the basis changes (H for X,
\* Rx(pi/2) for Y, none for Z) of the support qubits in order, the CNOTs
\* q_i -> q_(i+1), one Rz(coeff * parameter) on the last qubit carrying the
\* gate's controls, the CNOTs in reverse order and the inverse basis changes
\* (H, Rx(-pi/2)); for {0:X, 1:Z} with coefficient 1 it returns H(0),
\* CNOT(0->1), Rz(parameter) on 1, CNOT(0->1), H(0).
C8_ExpPauliLayout ==
    (call.op = "compile_exponential_pauli_gate" /\ gate.cls = "ExponentialPauliGateImpl")
    => LET items == gate.paulistring.data
           n == Len(items)
           q(i) == <<items[i].q>>
           NotZ(i) == items[i].op # "Z"
           support == SortedOf({i \in 1..n : NotZ(i)})
           Basis(sign) ==
               [k \in 1..Len(support) |->
                   IF items[support[k]].op = "X"
                   THEN PlainView("H", q(support[k]), <<>>)
                   ELSE RotView("Rx", PiTimes(sign, 2), q(support[k]), <<>>)]
           Cnots == [i \in 1..(n - 1) |-> PlainView("X", q(i + 1), q(i))]
           Central == RotView("Rz", PMul(gate.parameter, gate.paulistring.coeff),
                              q(n), gate.control)
       IN  /\ out.ok
           /\ Views(out.gates) =
                 Basis(1) \o Cnots \o <<Central>> \o Reverse(Cnots) \o Basis(-1)
           /\ (/\ items = <<[q |-> 0, op |-> "X"], [q |-> 1, op |-> "Z"]>>
               /\ gate.paulistring.coeff = Rat(1, 1)
               /\ gate.control = <<>>)
              => Views(out.gates) =
                    <<PlainView("H", <<0>>, <<>>), PlainView("X", <<1>>, <<0>>),
                      RotView("Rz", gate.parameter, <<1>>, <<>>),
                      PlainView("X", <<1>>, <<0>>), PlainView("H", <<0>>, <<>>)>>

C8_Witness ==
    /\ call.op = "compile_exponential_pauli_gate"
    /\ gate.cls = "ExponentialPauliGateImpl"
    /\ Len(gate.paulistring.data) = 3
    /\ Len(gate.control) = 1
    /\ \E i \in 1..3 : gate.paulistring.data[i].op = "Y"
    /\ gate.paulistring.data[1].q > gate.paulistring.data[2].q
    /\ out.ok

\* C9: compile_objective gives equal expectation-value terms of an objective,
\* in the same or in different term-sets, the identical compiled object.
C9_EqualTermsShareObject ==
    (call.op = "compile_objective" /\ out.ok)
    => LET argsets == call.objective.argsets
       IN  \A s, t \in 1..Len(out.sets) :
             \A i \in 1..Len(out.sets[s]), j \in 1..Len(out.sets[t]) :
                (argsets[s][i].kind = "E" /\ term_equal(argsets[s][i], argsets[t][j]))
                   => out.sets[s][i].id = out.sets[t][j].id

\* C10: compile_controlled_phase turns Phase(theta) with count >= 2 controls
\* into count+1 Rz gates: stage i < count is Rz(theta / 2^(count-i)) on c_i
\* controlled by c_0..c_(i-1), the last is Rz(theta) on the target under all
\* controls.
C10_PhaseLadder ==
    (/\ call.op = "compile_controlled_phase"
     /\ gate.cls = "PhaseGateImpl"
     /\ Len(gate.control) >= 2)
    => LET count == Len(gate.control)
           c == gate.control
       IN  /\ out.ok
           /\ Views(out.gates) =
                 [k \in 1..(count + 1) |->
                     IF k <= count
                     THEN RotView("Rz", PScale(gate.parameter, 1, Pow2(count - (k - 1))),
                                  <<c[k]>>, SubSeq(c, 1, k - 1))
                     ELSE RotView("Rz", gate.parameter, gate.target, c)]

C10_Witness ==
    /\ call.op = "compile_controlled_phase"
    /\ gate.cls = "PhaseGateImpl"
    /\ Len(gate.control) = 3
    /\ Len(out.gates) = 4


\* C11: power_recursor on a power gate with k >= 3 controls and exponent p
\* returns the block of the sub-gate on the last control with exponent p/2,
\* the X on the last control under the other controls, the block of the
\* sub-gate's dagger, that X again, and then the result of one call of
\* power_recursor on the gate with the same name and target, the first k-1
\* controls and exponent p/2; it re-enters itself k-2 times in all, each time
\* with one control less and half the exponent.
C11_OneHalvedRecursion ==
    (call.op = "power_recursor" /\ gate.cls = "PowerGateImpl" /\ Len(gate.control) >= 3) =>
        LET k == Len(gate.control)
            c == gate.control
            half == PScale(gate.parameter, 1, 2)
            v == PowerGateImpl(gate.name, gate.target, half, <<c[k]>>, None)
            rest == PowerGateImpl(gate.name, gate.target, half, SubSeq(c, 1, k - 1), None)
            mcx == X(<<c[k]>>, SubSeq(c, 1, k - 1))
            calls == power_recursor_calls(gate)
        IN  /\ out = Cat(get_axbxc_decomp(v.gates[1]), Cat(mcx,
                      Cat(get_axbxc_decomp(gate_dagger(v.gates[1])), Cat(mcx,
                          power_recursor(rest.gates[1], call.cut)))))
            /\ Len(calls) = k - 2
            /\ calls[1] = rest.gates[1]
            /\ \A i \in 1..Len(calls) :
                   /\ calls[i].name = gate.name /\ calls[i].target = gate.target
                   /\ calls[i].control = SubSeq(c, 1, k - i)
                   /\ calls[i].parameter = PScale(gate.parameter, 1, Pow2(i))

C11_Witness ==
    /\ call.op = "power_recursor" /\ gate.cls = "PowerGateImpl"
    /\ gate.name = "Z" /\ Len(gate.control) = 3 /\ gate.parameter = Num(1, 2)
    /\ out.ok /\ Len(out.gates) > 5

\* C12: the dagger of a Rotation, Phase, Exponential-Pauli or
\* Generalized-rotation gate has the negated parameter and the same name,
\* target and control, and the dagger of the dagger equals the gate under
\* gate equality.
Negatable ==
    {"RotationGateImpl", "PhaseGateImpl", "ExponentialPauliGateImpl", "GeneralizedRotationImpl"}

C12_DaggerNegatesAndInverts ==
    /\ (call.op = "dagger" /\ gate.cls \in Negatable) =>
           /\ out.gates[1].parameter = PSub(Num(0, 1), gate.parameter)
           /\ out.gates[1].name = gate.name
           /\ out.gates[1].target = gate.target
           /\ out.gates[1].control = gate.control
    /\ (call.op = "dagger_dagger" /\ gate.cls \in Negatable) =>
           gate_eq(out.gates[1], gate) /\ gate_eq(gate, out.gates[1])

C12_Witness ==
    /\ call.op = "dagger_dagger"
    /\ gate.cls = "GeneralizedRotationImpl"
    /\ Len(gate.control) = 1
    /\ out.gates[1].parameter = Theta

(***************************************************************************)
(* The pipelines of compile_circuit (PipelineSpec).                        *)
(***************************************************************************)
Visited == call.op = "visit"
Differentiable(g) == HasAttr(g, "eigenvalues_magnitude") \/ HasAttr(g, "shifted_gates")
StageIf(b, f) == IF b THEN <<f>> ELSE <<>>
IsPrefix(a, b) == Len(a) <= Len(b) /\ a = SubSeq(b, 1, Len(a))

C16_MulticontrolAlwaysFails ==
    (Visited /\ "multicontrol" \in call.cfg) => ~out.ok

\* the rules of the first pipeline that a visit applies when no rule raises
FirstStages(three, five, cfg) ==
    StageIf(three \/ "trotterized" \in cfg, "compile_trotterized_gate")
    \o StageIf(three \/ "generalized_rotation" \in cfg, "compile_generalized_rotation_gate")
    \o StageIf(three \/ "exponential_pauli" \in cfg, "compile_exponential_pauli_gate")
    \o StageIf(five \/ "swap" \in cfg, "compile_swap")
    \o StageIf(five \/ "hadamard_power" \in cfg, "compile_h_power")
    \o StageIf(five \/ "phase_to_z" \in cfg, "compile_phase_to_z")
    \o StageIf(five \/ "power" \in cfg, "compile_power_gate")
    \o StageIf(five \/ "phase" \in cfg, "compile_phase")

\* C17 as stated: the first pipeline applies Trotter, generalized-rotation,
\* exponential-Pauli, SWAP, Hadamard-power, phase-to-Z, plain-power and phase
\* in this order, each exactly when its toggle is set or the gate is
\* controlled.
C17_EveryStageToggleOrControlled ==
    (Visited /\ ~call.trace.skipped /\ call.trace.first_ok) =>
        call.trace.first
            = FirstStages(is_controlled(gate), is_controlled(gate), call.cfg)

\* C17 amended: the stages run in this order up to the first raise; Trotter,
\* generalized-rotation and exponential-Pauli are applied exactly when their
\* toggle is set or the gate is controlled, SWAP, Hadamard-power, phase-to-Z,
\* plain-power and phase exactly when their own toggle is set.
C17_FirstPipeline ==
    (Visited /\ ~call.trace.skipped) =>
        /\ IsPrefix(call.trace.first, FirstStages(is_controlled(gate), FALSE, call.cfg))
        /\ call.trace.first_ok =>
               call.trace.first = FirstStages(is_controlled(gate), FALSE, call.cfg)

C17_Witness ==
    /\ Visited
    /\ call.cfg = {"phase"}
    /\ gate.cls = "PhaseGateImpl"
    /\ Len(gate.control) = 1
    /\ call.trace.first = <<"compile_trotterized_gate", "compile_generalized_rotation_gate",
                            "compile_exponential_pauli_gate", "compile_phase">>

ContainsControlled(gates) == \E i \in 1..Len(gates) : is_controlled(gates[i])

\* C18 as stated: the second pipeline is applied exactly when the result of
\* the first pipeline still contains a controlled gate.
C18_SecondIffResultControlled ==
    (Visited /\ ~call.trace.skipped /\ call.trace.first_ok) =>
        (call.trace.entered <=> ContainsControlled(call.trace.first_result))

\* the rules of the second pipeline under the toggles
SecondStages(cfg) ==
    StageIf("cc_max" \in cfg, "compile_to_cc")
    \o StageIf("controlled_exponential_pauli" \in cfg, "compile_exponential_pauli_gate")
    \o StageIf("hadamard_power" \in cfg, "compile_h_power")
    \o StageIf("controlled_power" \in cfg, "compile_power_gate")
    \o StageIf("controlled_phase" \in cfg, "compile_controlled_phase")
    \o StageIf("toffoli" \in cfg, "compile_toffoli")
    \o StageIf("toffoli" \in cfg /\ "phase" \in cfg, "compile_phase")
    \o StageIf("controlled_rotation" \in cfg, "compile_controlled_rotation")
    \o StageIf("cc_max" \in cfg, "compile_to_cc")

\* C18 amended: the second pipeline is applied exactly when the visited gate
\* itself, as it was before the first pipeline, is controlled and the first
\* pipeline has returned; its rules then run in the listed order on their
\* toggles, up to the first raise.
C18_SecondIffGateControlled ==
    Visited =>
        /\ call.trace.entered <=> (is_controlled(gate) /\ call.trace.first_ok)
        /\ IsPrefix(call.trace.second,
                    IF call.trace.entered THEN SecondStages(call.cfg) ELSE <<>>)
        /\ out.ok =>
               call.trace.second
                   = IF call.trace.entered THEN SecondStages(call.cfg) ELSE <<>>

C18_Witness ==
    /\ Visited
    /\ gate.cls = "QGateImpl" /\ gate.name = "SWAP" /\ ~is_controlled(gate)
    /\ call.cfg = Toggles \ {"multicontrol", "gradient_mode"}
    /\ ContainsControlled(call.trace.first_result)
    /\ ~call.trace.entered
    /\ out.ok /\ Len(out.gates) = 3

(***************************************************************************)
(* The rules on single gates (Spec).                                       *)
(***************************************************************************)
RuleCalls ==
    {"compile_multitarget", "compile_to_cc", "compile_toffoli", "compile_swap",
     "compile_exponential_pauli_gate", "compile_controlled_phase", "power_recursor"}

PoweredSwap(g) == Lower(g.name) = "swap" /\ g.cls = "PowerGateImpl"

\* C20: every decomposition rule returns a circuit for every single gate
\* without raising, the powered SWAP being the only exception.
C20_RulesTotal ==
    (call.op \in RuleCalls /\ ~PoweredSwap(gate)) => out.ok

(***************************************************************************)
(* The Compiler on whole objects (CompilerSpec).                           *)
(***************************************************************************)
CompilerCalled == call.op = "__call__"

\* how many of the given names list position p in the index
Listed(circuit, names, p) ==
    Cardinality({k \in 1..Len(names) : InSeq(p, circuit.parameter_map[names[k]])})

Repeated(gs, n) == Concat([k \in 1..n |-> gs])

\* C13: called with names of variables, compile_circuit puts through the
\* pipeline only the gates that the index of the circuit lists under these
\* names; every gate at another position is in the result unchanged and in
\* its place among the others.
C13_OnlyListedGatesCompiled ==
    (CompilerCalled /\ IsInstance(call.before, {"QCircuit"})
        /\ ~call.variables.isNone /\ out.ok) =>
        out.gates =
            Concat([p \in 1..Len(call.before.gates) |->
                       IF Listed(call.before, call.variables.names, p) = 0
                       THEN <<call.before.gates[p]>>
                       ELSE Repeated(compile_circuit(<<call.before.gates[p]>>, call.cfg).gates,
                                     Listed(call.before, call.variables.names, p))])

C13_Witness ==
    /\ CompilerCalled /\ IsInstance(call.before, {"QCircuit"})
    /\ call.variables = VariableList(<<"b">>)
    /\ call.cfg = {"swap", "phase", "exponential_pauli", "controlled_phase"}
    /\ Len(call.before.gates) = 3
    /\ call.before.gates[1].name = "SWAP"
    /\ call.before.gates[2].name = "Phase"
    /\ call.before.gates[3].name = "Exp-Pauli"
    /\ out.ok /\ Len(out.gates) > 3
    /\ out.gates[1] = call.before.gates[1]
    /\ out.gates[Len(out.gates)] = call.before.gates[3]

Recognised(o) ==
    IsInstance(o, {"QCircuit", "Objective", "VectorObjective"})
    \/ (HasAttr(o, "kind") /\ o.kind = "E")

ShapeOf(o) ==
    IF IsInstance(o, {"QCircuit"}) THEN "circuit"
    ELSE IF IsInstance(o, {"Objective", "VectorObjective"}) THEN "objective"
    ELSE "expectationvalue"

\* C15: a call of the Compiler returns an object of the shape of its input
\* or raises; an input that is no circuit, expectation value or objective is
\* refused, and no call returns None.
C15_SameShapeOrRaise ==
    CompilerCalled =>
        /\ out.ok => out.shape # "None"
        /\ IF Recognised(call.before)
           THEN out.ok => out.shape = ShapeOf(call.before)
           ELSE ~out.ok

\* C19: no call of the Compiler or of a rule changes a value of the caller:
\* the circuit, its gates, the order of the generators of a Trotterized gate
\* and of their terms, the expectation values of an objective.
C19_CallerValuesUnchanged ==
    (call.op \in {"__call__", "compile_trotterized_gate"}) => gate = call.before

(***************************************************************************)
(* The lowering rules on single gates (RuleSpec).                          *)
(***************************************************************************)
\* a gate whose name is none of the names the stage has a case for
NoMatchingCase(stage, g) ==
    IF stage = "compile_power_base"
    THEN g.cls = "PowerGateImpl"
         /\ g.name \notin {"H", "h", "Hadamard", "hadamard", "X", "Y", "Z"}
    ELSE IF stage = "hadamard_base"
    THEN g.cls = "PowerGateImpl" /\ g.name \notin {"H", "h", "hadamard"}
    ELSE Lower(g.name) # "x"

LoweringStages == {"compile_power_base", "hadamard_base", "compile_toffoli"}

\* C21 as stated: a gate whose name has no matching case raises at
\* compile_power_base, at hadamard_base and at compile_toffoli.
C21_UnmatchedNameIsFatal ==
    (call.op \in LoweringStages /\ NoMatchingCase(call.op, gate)) => ~out.ok

\* C21 amended: a power gate whose name has no matching case raises at
\* compile_power_base; at hadamard_base and at compile_toffoli a gate whose
\* name has no matching case is returned as the one-gate circuit.
C21_UnmatchedName ==
    (call.op \in LoweringStages /\ NoMatchingCase(call.op, gate)) =>
        IF call.op = "compile_power_base" THEN ~out.ok ELSE out = Ok(<<gate>>)

C21_Witness ==
    /\ call.op = "compile_power_base"
    /\ gate.cls = "PowerGateImpl" /\ gate.name = "SWAP"
    /\ ~out.ok

\* the six-part reduction of a rotation about g's axis on the one target t
ReducedOnTarget(g, t) ==
    Cat(change_basis(<<t>>, g.axis, FALSE),
    Cat(Rz(PScale(g.parameter, 1, 2), <<t>>, <<>>),
    Cat(X(<<t>>, g.control),
    Cat(Rz(PScale(g.parameter, -1, 2), <<t>>, <<>>),
    Cat(X(<<t>>, g.control),
        change_basis(<<t>>, g.axis, TRUE)))))).gates

\* C22: compile_controlled_rotation on a controlled rotation, also one with
\* several targets, returns for each target in order the basis change,
\* Rz(theta/2), the controlled X, Rz(-theta/2), the controlled X and the
\* inverse basis change.
C22_ControlledRotationPerTarget ==
    (call.op = "compile_controlled_rotation"
     /\ gate.cls = "RotationGateImpl" /\ is_controlled(gate)) =>
        out = Ok(Concat([i \in 1..Len(gate.target) |-> ReducedOnTarget(gate, gate.target[i])]))

IsNonConstant(term) == Len(term.data) # 0
NonConstant(generator) == SelectSeq(generator.terms, IsNonConstant)
NonConstantCount(g) ==
    Len(Concat([i \in 1..Len(g.generators) |-> NonConstant(g.generators[i])]))

\* the i-th angle, 1.0 when the gate was built without angles
TrotterAngle(g, i) == IF g.angles.isNone THEN Num(1, 1) ELSE g.angles.vals[i]

\* one pass over the non-constant terms of generator i: string, angle, controls
EmittedOnce(g, i) ==
    [j \in 1..Len(NonConstant(g.generators[i])) |->
        [paulistring |-> naked(NonConstant(g.generators[i])[j]),
         angle |-> PScale(PMul(TrotterAngle(g, i), NonConstant(g.generators[i])[j].coeff),
                          1, g.steps),
         control |-> g.control]]

TrotterOrder(g) ==
    IF g.join_components
    THEN Concat([k \in 1..g.steps |->
                    Concat([i \in 1..Len(g.generators) |-> EmittedOnce(g, i)])])
    ELSE Concat([i \in 1..Len(g.generators) |->
                    Concat([k \in 1..g.steps |-> EmittedOnce(g, i)])])

EmittedBy(gs) ==
    [n \in 1..Len(gs) |->
        [paulistring |-> gs[n].paulistring, angle |-> gs[n].parameter,
         control |-> gs[n].control]]

TrotterizedOff ==
    /\ call.op = "compile_trotterized_gate"
    /\ gate.cls = "TrotterizedGateImpl"
    /\ ~gate.randomize /\ ~gate.randomize_component_order

C24_CompileToCCIdempotent ==
    (call.op = "compile_to_cc twice" /\ call.once.ok) => out = call.once

\* g is the rotation about Z by angle on target under control
IsRz(g, angle, target, control) ==
    /\ g.cls = "RotationGateImpl" /\ g.axis = 2
    /\ g.parameter = angle /\ g.target = target /\ g.control = control

\* C25: compile_phase turns an uncontrolled Phase(theta) on t into Rz(theta)
\* on t; with one control c into Rz(theta/2) on c followed by Rz(theta) on t
\* controlled by c; with two or more controls it returns what
\* compile_controlled_phase returns; any other gate comes back unchanged.
C25_CompilePhaseCases ==
    call.op = "compile_phase" =>
        IF gate.cls # "PhaseGateImpl" THEN out = Ok(<<gate>>)
        ELSE IF Len(gate.control) = 0
        THEN /\ out.ok /\ Len(out.gates) = 1
             /\ IsRz(out.gates[1], gate.parameter, gate.target, <<>>)
        ELSE IF Len(gate.control) = 1
        THEN /\ out.ok /\ Len(out.gates) = 2
             /\ IsRz(out.gates[1], PScale(gate.parameter, 1, 2), gate.control, <<>>)
             /\ IsRz(out.gates[2], gate.parameter, gate.target, gate.control)
        ELSE /\ out = compiler("compile_controlled_phase", wrap_gate(gate), NoKw)
             /\ out.ok /\ Len(out.gates) = Len(gate.control) + 1
             /\ IsRz(out.gates[Len(out.gates)], gate.parameter, gate.target, gate.control)

C25_Witness ==
    /\ call.op = "compile_phase"
    /\ gate.cls = "PhaseGateImpl" /\ Len(gate.control) = 1
    /\ gate.parameter = PiTimes(1, 2)
    /\ Len(out.gates) = 2 /\ out.gates[1].parameter = PiTimes(1, 4)

(***************************************************************************)
(* Calls of the compiler on circuits (CompilerSpec).                       *)
(***************************************************************************)
\* the call visits no gate: the circuit is empty, or names were given and
\* no gate of the circuit depends on any of them
VisitsNoGate ==
    /\ CompilerCalled /\ IsInstance(call.before, {"QCircuit"})
    /\ \/ Len(call.before.gates) = 0
       \/ /\ ~call.variables.isNone
          /\ \A p \in 1..Len(call.before.gates) :
                Listed(call.before, call.variables.names, p) = 0

\* C26: a call of compile_circuit that visits no gate returns the circuit
\* it was given, unchanged, whatever the toggles are.
C26_NoVisitReturnsInput ==
    VisitsNoGate =>
        /\ out.ok /\ out.shape = "circuit"
        /\ out.gates = call.before.gates
        /\ gate = call.before

C26_Witness ==
    /\ VisitsNoGate
    /\ call.cfg = {"multicontrol"}
    /\ Len(call.before.gates) = 2
    /\ Len(call.variables.names) = 1
    /\ out.ok /\ out.gates = call.before.gates

\* the positions compile_circuit visits in the call, in the order of the visits
VisitedPositions ==
    gatelist(call.before.gates, call.before.parameter_map, call.variables)

\* C27: in a call with names of variables no position of the circuit is
\* visited, compiled and handed to the splice more than once, also when the
\* gate at the position depends on two or more of the names.
C27_EachPositionOnce ==
    (CompilerCalled /\ IsInstance(call.before, {"QCircuit"}) /\ ~call.variables.isNone) =>
        Distinct(VisitedPositions)

(***************************************************************************)
(* The two-control case of the recursors (RuleSpec).                       *)
(***************************************************************************)
TwoControlCase ==
    /\ call.op \in {"power_recursor", "hadamard_recursor"}
    /\ gate.cls = "PowerGateImpl" /\ Len(gate.control) = 2
    /\ call.op = "hadamard_recursor" => gate.name \in {"H", "h", "hadamard"}

\* the one-control rule of the recursor that was called
BlockRule == IF call.op = "power_recursor" THEN "get_axbxc_decomp" ELSE "hadamard_axbxc"

\* the gate at half the exponent on the one control c
HalfOn(c) ==
    PowerGateImpl(gate.name, gate.target, PScale(gate.parameter, 1, 2), <<c>>, None).gates[1]

\* block(p/2 on c1), CNOT(c0 -> c1), block(dagger of the p/2 gate on c1),
\* CNOT(c0 -> c1), block(p/2 on c0), the middle block equal to the first
TwoControlLayout ==
    LET c0 == gate.control[1]
        c1 == gate.control[2]
        first == call_rule(BlockRule, HalfOn(c1), NoKw)
        middle == call_rule(BlockRule, gate_dagger(HalfOn(c1)), NoKw)
        last == call_rule(BlockRule, HalfOn(c0), NoKw)
        cx == CNOT(<<c0>>, <<c1>>)
        n == Len(first.gates)
    IN  /\ out = Cat(first, Cat(cx, Cat(middle, Cat(cx, last))))
        /\ out.ok
        /\ gate_dagger(HalfOn(c1)) = HalfOn(c1)
        /\ gate_dagger(gate_dagger(gate_dagger(HalfOn(c1)))) = gate_dagger(HalfOn(c1))
        /\ SubSeq(out.gates, n + 2, 2 * n + 1) = SubSeq(out.gates, 1, n)

\* power_recursor told to stop at two controls, on a gate named as a Toffoli
CutAtToffoli ==
    /\ call.op = "power_recursor"
    /\ call.cut
    /\ gate.name \in {"CCx", "CCNOT", "CCX", "X"}

\* C28 as stated: in the two-control case power_recursor and
\* hadamard_recursor return block(p/2 on c1), CNOT(c0 -> c1), block(dagger),
\* CNOT(c0 -> c1), block(p/2 on c0), and the middle block equals the first
\* because the dagger of a power gate is the gate itself.
C28_TwoControlBlocks == TwoControlCase => TwoControlLayout

\* C28 amended: the same, except that power_recursor called with cut on a
\* gate named X, CCx, CCNOT or CCX returns the gate itself.
C28_TwoControlBlocksUnlessCut ==
    TwoControlCase =>
        IF CutAtToffoli THEN out = Ok(<<gate>>) ELSE TwoControlLayout

C28_Witness ==
    /\ TwoControlCase /\ ~CutAtToffoli
    /\ call.op = "power_recursor" /\ gate.name = "Z"
    /\ gate.parameter = Num(1, 2)
    /\ TwoControlLayout
    /\ Len(out.gates) = 17

====
